---- MODULE Spec2Model ----
(***************************************************************************)
(* Token editor (token_editor.c / token_editor.h) of llamafile: the token  *)
(* buffer, the edit log (undo / redo), snapshots and the coordination with *)
(* the attention cache of the model runtime.                               *)
(***************************************************************************)
EXTENDS Integers, Sequences, FiniteSets, TLC

(* ------------------------------------------------------------------ *)
(* Bounds of the model                                                  *)
(* ------------------------------------------------------------------ *)

\* Largest number of tokens the explored buffers hold.
MaxLen == 3

\* Largest number of tokens of the buffers explored together with their
\* edit log.
LogLen == 2

\* Largest number of tokens of the buffers on which the log entries are
\* counted.
AcctLen == 1

\* Largest history limit set, and the cap on an unbounded (limit 0) history.
MaxHistory == 2

\* Largest max_depth of an environment.
MaxDepth == 2

\* max_contexts of the explored environments.
MaxContexts == 3

\* Number of context ids an environment hands out in a run.
MaxIds == 4

\* Largest number of tokens in the editor of a context node.
EnvLen == 1

\* Largest n_predict of a completion.
MaxPredict == 2

\* Number of heap addresses malloc hands out for message data.
MaxBlocks == 2

\* Largest timeout_ms of a rllm_recv_message.
MaxTimeout == 1

\* Largest sequence id followed.
MaxSeqId == 3

\* Largest n_predict of the completion inside rllm_self_eval.
EvalPredict == 1

\* TE_DEFAULT_CAPACITY: 4096 in the source, scaled down so that the
\* doubling of te_ensure_capacity is reached within MaxLen tokens.
TE_DEFAULT_CAPACITY == 2

\* TE_HISTORY_DEFAULT_LIMIT: 100 in the source, scaled down so that the
\* trimming of te_record_edit is reached.
TE_HISTORY_DEFAULT_LIMIT == 2

\* Capacity of the roots array of rllm_init: 8 in the source, scaled down
\* so that a root past the capacity is reached within MaxContexts nodes.
n_roots_cap == 2

\* queue_capacity of a context: 32 in the source, scaled down so that the
\* ring fills and wraps within a few sends.
queue_capacity == 3

\* te_token_t values the explored runs use.
Token == {0, 1}

\* The content of a cell outside tokens[0 .. n_tokens): calloc'ed, left over
\* from an earlier edit or added by realloc. The model keeps no value for
\* it; only a te_replace_tokens whose range starts past n_tokens takes such
\* cells into the buffer, as they are.
Indet == 99

\* The payloads handed to insert_tokens / replace_tokens / import_binary:
\* up to two tokens.
Payloads == UNION {[1..n -> Token] : n \in 0..2}

\* te_pos_t arguments: one below the buffer, every index, one past the end.
Positions == -1..(MaxLen + 1)

\* The same for the buffers explored together with their edit log.
LogPositions == -1..(LogLen + 1)

Min(a, b) == IF a < b THEN a ELSE b
Max(a, b) == IF a > b THEN a ELSE b

(* ------------------------------------------------------------------ *)
(* C helpers                                                            *)
(* ------------------------------------------------------------------ *)

\* (size_t)x > n for an int32_t x and a size_t n below 2^31: the conversion
\* maps a negative x to 2^64 + x, which is above every such n.
SizeGreater(x, n) == x < 0 \/ x > n

\* memmove(arr + dst, arr + src, cnt): cells are 0-based, arr is 1-based.
MemMove(arr, dst, src, cnt) ==
    [i \in 1..Len(arr) |->
        IF dst <= i - 1 /\ i - 1 < dst + cnt THEN arr[(i - 1) - dst + src + 1]
        ELSE arr[i]]

\* memcpy(arr + dst, data, Len(data))
MemCpy(arr, dst, data) ==
    [i \in 1..Len(arr) |->
        IF dst <= i - 1 /\ i - 1 < dst + Len(data) THEN data[i - dst]
        ELSE arr[i]]

\* The first n cells of an array, as a sequence.
Prefix(arr, n) == [i \in 1..n |-> arr[i]]

\* The cells [from, from + cnt) of an array, as a sequence.
Cells(arr, from, cnt) == [i \in 1..cnt |-> arr[from + i]]

\* The token sequence of an editor: tokens[0 .. n_tokens).
Contents(ctx) == Prefix(ctx.tokens, ctx.n_tokens)

te_range_t(start, end) == [start |-> start, end |-> end]

(* ------------------------------------------------------------------ *)
(* Internal helpers of the editor                                       *)
(* ------------------------------------------------------------------ *)

RECURSIVE Doubled(_, _)
\* while (new_capacity < required) new_capacity *= 2;
Doubled(cap, required) == IF cap < required THEN Doubled(cap * 2, required) ELSE cap

\* A te_ensure_capacity that grows the arrays to just the required size.
te_ensure_capacity_to_required(ctx, required) ==
    IF required <= ctx.capacity THEN ctx
    ELSE [ctx EXCEPT
            !.tokens = [i \in 1..required |->
                           IF i <= ctx.capacity THEN ctx.tokens[i] ELSE Indet],
            !.capacity = required]

te_ensure_capacity(ctx, required) ==
    IF required <= ctx.capacity THEN ctx
    ELSE LET new_capacity == Doubled(ctx.capacity * 2, required)
         IN [ctx EXCEPT
               !.tokens = [i \in 1..new_capacity |->
                              IF i <= ctx.capacity THEN ctx.tokens[i] ELSE Indet],
               !.capacity = new_capacity]

RECURSIVE Trimmed(_, _)
\* while (count > ctx->history_limit && ctx->history) drop the oldest
Trimmed(history, limit) ==
    IF Len(history) > limit /\ history # <<>> THEN Trimmed(Tail(history), limit)
    ELSE history

\* A te_record_edit that enforces the limit by dropping the newest entries.
te_record_edit_dropping_newest(ctx, type, source, dest, tokens) ==
    IF ctx.suppress_history THEN ctx
    ELSE LET op == [type |-> type, source |-> source, dest |-> dest,
                    tokens |-> tokens, n_tokens |-> Len(tokens)]
             appended == Append(ctx.history, op)
         IN [ctx EXCEPT
               !.history = IF ctx.history_limit > 0 /\ Len(appended) > ctx.history_limit
                           THEN SubSeq(appended, 1, ctx.history_limit)
                           ELSE appended,
               !.redo_stack = <<>>]

te_record_edit(ctx, type, source, dest, tokens) ==
    IF ctx.suppress_history THEN ctx
    ELSE LET op == [type |-> type, source |-> source, dest |-> dest,
                    tokens |-> tokens, n_tokens |-> Len(tokens)]
             appended == Append(ctx.history, op)
         IN [ctx EXCEPT
               !.history = IF ctx.history_limit > 0
                           THEN Trimmed(appended, ctx.history_limit)
                           ELSE appended,
               !.redo_stack = <<>>]

te_init ==
    [tokens |-> [i \in 1..TE_DEFAULT_CAPACITY |-> Indet],
     n_tokens |-> 0,
     capacity |-> TE_DEFAULT_CAPACITY,
     history |-> <<>>,
     redo_stack |-> <<>>,
     history_limit |-> TE_HISTORY_DEFAULT_LIMIT,
     readonly |-> FALSE,
     kv_cache_dirty |-> FALSE,
     logits_valid |-> FALSE,
     suppress_history |-> FALSE,
     active_sequences |-> <<0>>]

\* The cells at and beyond n_tokens hold no token of the buffer.
Forget(ctx) ==
    [ctx EXCEPT !.tokens = [i \in 1..ctx.capacity |->
                               IF i <= ctx.n_tokens THEN ctx.tokens[i] ELSE Indet]]

\* What a call leaves: the editor and the error code returned.
Result(ctx, err) == [ctx |-> Forget(ctx), err |-> err]

(* ------------------------------------------------------------------ *)
(* Token modification                                                   *)
(* ------------------------------------------------------------------ *)

te_set_token(ctx, pos, token) ==
    IF ctx.readonly THEN Result(ctx, "TE_ERROR_READONLY")
    ELSE IF pos < 0 \/ pos >= ctx.n_tokens THEN Result(ctx, "TE_ERROR_INVALID_POSITION")
    ELSE LET old_token == ctx.tokens[pos + 1]
             range == te_range_t(pos, pos + 1)
             rec == te_record_edit(ctx, "TE_OP_REPLACE", range, range, <<old_token>>)
         IN Result([rec EXCEPT !.tokens[pos + 1] = token,
                               !.kv_cache_dirty = TRUE,
                               !.logits_valid = FALSE], "TE_OK")

\* A te_insert_tokens that writes the new tokens without moving the tail.
te_insert_tokens_unshifted(ctx, pos, tokens) ==
    IF ctx.readonly THEN Result(ctx, "TE_ERROR_READONLY")
    ELSE IF pos < 0 \/ pos > ctx.n_tokens THEN Result(ctx, "TE_ERROR_INVALID_POSITION")
    ELSE IF Len(tokens) = 0 THEN Result(ctx, "TE_OK")
    ELSE LET n == Len(tokens)
             grown == te_ensure_capacity(ctx, ctx.n_tokens + n)
             written == [grown EXCEPT !.tokens = MemCpy(grown.tokens, pos, tokens),
                                      !.n_tokens = ctx.n_tokens + n,
                                      !.kv_cache_dirty = TRUE,
                                      !.logits_valid = FALSE]
             range == te_range_t(pos, pos + n)
         IN Result(te_record_edit(written, "TE_OP_INSERT", range, range, tokens), "TE_OK")

te_insert_tokens(ctx, pos, tokens) ==
    IF ctx.readonly THEN Result(ctx, "TE_ERROR_READONLY")
    ELSE IF pos < 0 \/ pos > ctx.n_tokens THEN Result(ctx, "TE_ERROR_INVALID_POSITION")
    ELSE IF Len(tokens) = 0 THEN Result(ctx, "TE_OK")
    ELSE LET n == Len(tokens)
             grown == te_ensure_capacity(ctx, ctx.n_tokens + n)
             shifted == IF pos < ctx.n_tokens
                        THEN MemMove(grown.tokens, pos + n, pos, ctx.n_tokens - pos)
                        ELSE grown.tokens
             written == [grown EXCEPT !.tokens = MemCpy(shifted, pos, tokens),
                                      !.n_tokens = ctx.n_tokens + n,
                                      !.kv_cache_dirty = TRUE,
                                      !.logits_valid = FALSE]
             range == te_range_t(pos, pos + n)
         IN Result(te_record_edit(written, "TE_OP_INSERT", range, range, tokens), "TE_OK")

te_delete_tokens(ctx, range) ==
    IF ctx.readonly THEN Result(ctx, "TE_ERROR_READONLY")
    ELSE LET start == IF range.start < 0 THEN 0 ELSE range.start
             end == IF SizeGreater(range.end, ctx.n_tokens) THEN ctx.n_tokens ELSE range.end
         IN IF start >= end THEN Result(ctx, "TE_OK")
            ELSE LET count == end - start
                     saved == Cells(ctx.tokens, start, count)
                     save_range == te_range_t(start, end)
                     rec == te_record_edit(ctx, "TE_OP_DELETE", save_range, save_range, saved)
                     shifted == IF end < ctx.n_tokens
                                THEN MemMove(rec.tokens, start, end, ctx.n_tokens - end)
                                ELSE rec.tokens
                 IN Result([rec EXCEPT !.tokens = shifted,
                                       !.n_tokens = ctx.n_tokens - count,
                                       !.kv_cache_dirty = TRUE,
                                       !.logits_valid = FALSE], "TE_OK")

\* The cells te_replace_tokens writes lie inside the (grown) allocation.
ReplaceInBounds(ctx, range, tokens) ==
    LET start == IF range.start < 0 THEN 0 ELSE range.start
        end == IF SizeGreater(range.end, ctx.n_tokens) THEN ctx.n_tokens ELSE range.end
        old_count == IF start < end THEN end - start ELSE 0
        new_count == Len(tokens)
        new_total == ctx.n_tokens - old_count + new_count
        cap == te_ensure_capacity(ctx, new_total).capacity
    IN /\ start + new_count <= cap
       /\ (new_count # old_count /\ end < ctx.n_tokens)
             => start + new_count + (ctx.n_tokens - end) <= cap

te_replace_tokens(ctx, range, tokens) ==
    IF ctx.readonly THEN Result(ctx, "TE_ERROR_READONLY")
    ELSE LET start == IF range.start < 0 THEN 0 ELSE range.start
             end == IF SizeGreater(range.end, ctx.n_tokens) THEN ctx.n_tokens ELSE range.end
             old_count == IF start < end THEN end - start ELSE 0
             new_count == Len(tokens)
             saved == IF old_count > 0 THEN Cells(ctx.tokens, start, old_count) ELSE <<>>
             new_total == ctx.n_tokens - old_count + new_count
             grown == te_ensure_capacity(ctx, new_total)
             shifted == IF new_count # old_count /\ end < ctx.n_tokens
                        THEN MemMove(grown.tokens, start + new_count, end, ctx.n_tokens - end)
                        ELSE grown.tokens
             copied == IF new_count > 0 THEN MemCpy(shifted, start, tokens) ELSE shifted
             written == [grown EXCEPT !.tokens = copied,
                                      !.n_tokens = new_total,
                                      !.kv_cache_dirty = TRUE,
                                      !.logits_valid = FALSE]
             save_range == te_range_t(start, end)
         IN Result(IF old_count > 0
                   THEN te_record_edit(written, "TE_OP_REPLACE", save_range, save_range, saved)
                   ELSE written, "TE_OK")

te_clear(ctx) ==
    IF ctx.readonly THEN Result(ctx, "TE_ERROR_READONLY")
    ELSE LET range == te_range_t(0, ctx.n_tokens)
             rec == IF ctx.n_tokens > 0
                    THEN te_record_edit(ctx, "TE_OP_DELETE", range, range, Contents(ctx))
                    ELSE ctx
         IN Result([rec EXCEPT !.n_tokens = 0,
                               !.kv_cache_dirty = TRUE,
                               !.logits_valid = FALSE], "TE_OK")

(* ------------------------------------------------------------------ *)
(* Undo / redo                                                          *)
(* ------------------------------------------------------------------ *)

\* A te_undo that re-inserts a deleted span at the end of its range instead
\* of its start.
UndoDispatchAtEnd(ctx, op) ==
    CASE op.type = "TE_OP_INSERT" -> te_delete_tokens(ctx, op.source).ctx
      [] op.type = "TE_OP_DELETE" ->
            te_insert_tokens(ctx, Min(op.source.end, ctx.n_tokens), op.tokens).ctx
      [] op.type = "TE_OP_REPLACE" -> te_replace_tokens(ctx, op.dest, op.tokens).ctx
      [] OTHER -> ctx

\* switch (op->type) of te_undo, run with suppress_history set; the error
\* code of the replayed mutator is dropped.
UndoDispatch(ctx, op) ==
    CASE op.type = "TE_OP_INSERT" -> te_delete_tokens(ctx, op.source).ctx
      [] op.type = "TE_OP_DELETE" -> te_insert_tokens(ctx, op.source.start, op.tokens).ctx
      [] op.type = "TE_OP_REPLACE" -> te_replace_tokens(ctx, op.dest, op.tokens).ctx
      [] OTHER -> ctx

\* A te_undo that leaves suppress_history as it finds it while it replays.
te_undo_unsuppressed(ctx) ==
    IF ctx.history = <<>> THEN Result(ctx, "TE_OK")
    ELSE LET op == ctx.history[Len(ctx.history)]
             popped == [ctx EXCEPT !.history = SubSeq(ctx.history, 1, Len(ctx.history) - 1)]
             replayed == UndoDispatch(popped, op)
         IN Result([replayed EXCEPT !.redo_stack = <<op>> \o replayed.redo_stack,
                                    !.kv_cache_dirty = TRUE,
                                    !.logits_valid = FALSE], "TE_OK")

te_undo(ctx) ==
    IF ctx.history = <<>> THEN Result(ctx, "TE_OK")
    ELSE LET op == ctx.history[Len(ctx.history)]
             popped == [ctx EXCEPT !.history = SubSeq(ctx.history, 1, Len(ctx.history) - 1)]
             was_suppress == ctx.suppress_history
             replayed == UndoDispatch([popped EXCEPT !.suppress_history = TRUE], op)
         IN Result([replayed EXCEPT !.suppress_history = was_suppress,
                                    !.redo_stack = <<op>> \o replayed.redo_stack,
                                    !.kv_cache_dirty = TRUE,
                                    !.logits_valid = FALSE], "TE_OK")

\* switch (op->type) of te_redo.
RedoDispatch(ctx, op) ==
    CASE op.type = "TE_OP_INSERT" -> te_insert_tokens(ctx, op.source.start, op.tokens).ctx
      [] op.type = "TE_OP_DELETE" -> te_delete_tokens(ctx, op.source).ctx
      [] op.type = "TE_OP_REPLACE" -> te_replace_tokens(ctx, op.source, op.tokens).ctx
      [] OTHER -> ctx

te_redo(ctx) ==
    IF ctx.redo_stack = <<>> THEN Result(ctx, "TE_OK")
    ELSE LET op == Head(ctx.redo_stack)
             popped == [ctx EXCEPT !.redo_stack = Tail(ctx.redo_stack)]
             was_suppress == ctx.suppress_history
             replayed == RedoDispatch([popped EXCEPT !.suppress_history = TRUE], op)
         IN Result([replayed EXCEPT !.suppress_history = was_suppress,
                                    !.history = Append(replayed.history, op),
                                    !.kv_cache_dirty = TRUE,
                                    !.logits_valid = FALSE], "TE_OK")

te_get_history_count(ctx) == Len(ctx.history)

te_clear_history(ctx) == [ctx EXCEPT !.history = <<>>, !.redo_stack = <<>>]

te_set_history_limit(ctx, limit) == [ctx EXCEPT !.history_limit = limit]

(* ------------------------------------------------------------------ *)
(* Attention cache of the model runtime (sequence 0)                    *)
(* ------------------------------------------------------------------ *)

\* The cache as the set of (position, token) cells it holds.
KvOf(tokens) == {[pos |-> i - 1, tok |-> tokens[i]] : i \in 1..Len(tokens)}

\* llama_kv_cache_seq_add(ctx, seq, 0, -1, delta): every cell moves by delta;
\* a cell moved below position 0 is dropped.
KvShifted(cache, delta) ==
    {[pos |-> c.pos + delta, tok |-> c.tok] : c \in {d \in cache : d.pos + delta >= 0}}

\* llama_kv_cache_seq_rm(ctx, seq, p0, p1): negative bounds mean unbounded.
KvRemoved(cache, p0, p1) ==
    {c \in cache : ~((p0 < 0 \/ c.pos >= p0) /\ (p1 < 0 \/ c.pos < p1))}

Outcome(ctx, cache, err) == [ctx |-> Forget(ctx), kv |-> cache, err |-> err]

\* te_sync_kv_cache with the dirty flag cleared before the decode is tried.
te_sync_kv_cache_clean_before_decode(ctx, cache, decode_ok) ==
    IF ~ctx.kv_cache_dirty THEN Outcome(ctx, cache, "TE_OK")
    ELSE IF ctx.n_tokens > 0 /\ ~decode_ok
         THEN Outcome([ctx EXCEPT !.kv_cache_dirty = FALSE], {}, "TE_ERROR_KV_CACHE_FULL")
    ELSE Outcome([ctx EXCEPT !.logits_valid = IF ctx.n_tokens > 0 THEN TRUE ELSE @,
                             !.kv_cache_dirty = FALSE],
                 KvOf(Contents(ctx)), "TE_OK")

\* decode_ok: whether llama_decode returns 0.
te_sync_kv_cache(ctx, cache, decode_ok) ==
    IF ~ctx.kv_cache_dirty THEN Outcome(ctx, cache, "TE_OK")
    ELSE IF ctx.n_tokens > 0 /\ ~decode_ok THEN Outcome(ctx, {}, "TE_ERROR_KV_CACHE_FULL")
    ELSE Outcome([ctx EXCEPT !.logits_valid = IF ctx.n_tokens > 0 THEN TRUE ELSE @,
                             !.kv_cache_dirty = FALSE],
                 KvOf(Contents(ctx)), "TE_OK")

te_invalidate_kv_range(ctx, cache, range) ==
    Outcome([ctx EXCEPT !.kv_cache_dirty = TRUE],
            KvRemoved(cache, range.start, range.end), "TE_OK")

te_clear_kv_cache(ctx, cache) ==
    Outcome([ctx EXCEPT !.kv_cache_dirty = TRUE, !.logits_valid = FALSE], {}, "TE_OK")

te_shift_kv_cache(ctx, cache, delta) == Outcome(ctx, KvShifted(cache, delta), "TE_OK")

te_delete_sequence(ctx, cache, seq_id) ==
    IF \E i \in 1..Len(ctx.active_sequences) : ctx.active_sequences[i] = seq_id
    THEN Outcome([ctx EXCEPT !.active_sequences =
                      SelectSeq(ctx.active_sequences, LAMBDA s : s # seq_id)],
                 IF seq_id = 0 THEN {} ELSE cache, "TE_OK")
    ELSE Outcome(ctx, cache, "TE_ERROR_SEQUENCE_NOT_FOUND")

\* The length of the active_sequences array: te_create_sequence refuses to
\* add an entry beyond it (16 in the source).
n_sequences_cap == 3

\* The id te_create_sequence picks: its loop over the active ids.
RECURSIVE NewId(_, _)
NewId(active, new_id) ==
    IF active = <<>> THEN new_id
    ELSE NewId(Tail(active), IF Head(active) >= new_id THEN Head(active) + 1 ELSE new_id)

te_create_sequence(ctx) ==
    LET new_id == NewId(ctx.active_sequences, 0)
    IN IF Len(ctx.active_sequences) >= n_sequences_cap
       THEN [ctx |-> ctx, id |-> -1]
       ELSE [ctx |-> [ctx EXCEPT !.active_sequences = Append(@, new_id)], id |-> new_id]

\* llama_kv_cache_seq_cp(src, dst): the cells of src are marked as cells of
\* dst as well; the cells of sequence 0 stay what they are when src is 0.
te_copy_sequence(ctx, cache, src, dst) == Outcome(ctx, cache, "TE_OK")

te_fork_sequence(ctx, cache, src) ==
    LET created == te_create_sequence(ctx)
        copied == te_copy_sequence(created.ctx, cache, src, created.id)
    IN IF created.id < 0 THEN [ctx |-> ctx, kv |-> cache, id |-> -1]
       ELSE IF copied.err # "TE_OK"
            THEN [ctx |-> te_delete_sequence(created.ctx, cache, created.id).ctx,
                  kv |-> te_delete_sequence(created.ctx, cache, created.id).kv,
                  id |-> -1]
       ELSE [ctx |-> copied.ctx, kv |-> copied.kv, id |-> created.id]

(* ------------------------------------------------------------------ *)
(* Snapshot and restore                                                 *)
(* ------------------------------------------------------------------ *)

\* blob_ok: whether malloc of the state blob succeeds; kv_cache_state is
\* <<>> for a null pointer and <<state>> for a saved state.
te_create_snapshot(ctx, cache, blob_ok) ==
    [tokens |-> Contents(ctx),
     n_tokens |-> ctx.n_tokens,
     kv_cache_state |-> IF blob_ok THEN <<cache>> ELSE <<>>]

\* A te_restore_snapshot that copies the tokens and keeps the old n_tokens.
te_restore_snapshot_keep_count(ctx, cache, snap) ==
    LET grown == te_ensure_capacity(ctx, snap.n_tokens)
        copied == [grown EXCEPT !.tokens = MemCpy(grown.tokens, 0, snap.tokens)]
    IN IF snap.kv_cache_state # <<>>
       THEN Outcome([copied EXCEPT !.kv_cache_dirty = FALSE, !.logits_valid = TRUE],
                    snap.kv_cache_state[1], "TE_OK")
       ELSE Outcome([copied EXCEPT !.kv_cache_dirty = TRUE, !.logits_valid = FALSE],
                    cache, "TE_OK")

te_restore_snapshot(ctx, cache, snap) ==
    LET grown == te_ensure_capacity(ctx, snap.n_tokens)
        copied == [grown EXCEPT !.n_tokens = snap.n_tokens,
                                !.tokens = MemCpy(grown.tokens, 0, snap.tokens)]
    IN IF snap.kv_cache_state # <<>>
       THEN Outcome([copied EXCEPT !.kv_cache_dirty = FALSE, !.logits_valid = TRUE],
                    snap.kv_cache_state[1], "TE_OK")
       ELSE Outcome([copied EXCEPT !.kv_cache_dirty = TRUE, !.logits_valid = FALSE],
                    cache, "TE_OK")

(* ------------------------------------------------------------------ *)
(* Binary import                                                        *)
(* ------------------------------------------------------------------ *)

\* buf holds the count word and then `data`; count is the count word and
\* buf_size = 4 + 4 * Len(data) the size the caller passes.
te_import_binary(ctx, count, data) ==
    IF Len(data) < count THEN Result(ctx, "TE_ERROR_BUFFER_TOO_SMALL")
    ELSE LET cleared == te_clear(ctx).ctx
             grown == te_ensure_capacity(cleared, count)
         IN Result([grown EXCEPT !.tokens = MemCpy(grown.tokens, 0, SubSeq(data, 1, count)),
                                 !.n_tokens = count,
                                 !.kv_cache_dirty = TRUE,
                                 !.logits_valid = FALSE], "TE_OK")

\* The bytes of a word laid down most significant byte first.
WordBytesBigEndian(x) == [k \in 1..4 |-> (x \div (256 ^ (4 - k))) % 256]

\* The four bytes memcpy lays down for a 32-bit word (little-endian host;
\* two's complement for a negative te_token_t).
WordBytes(x) == [k \in 1..4 |-> (x \div (256 ^ (k - 1))) % 256]

\* The uint32_t that memcpy reads from four bytes.
CountOfBytes(b) == b[1] + 256 * b[2] + 65536 * b[3] + 16777216 * b[4]

\* The int32_t (te_token_t) that memcpy reads from four bytes.
TokenOfBytes(b) ==
    b[1] + 256 * b[2] + 65536 * b[3]
      + 16777216 * (IF b[4] >= 128 THEN b[4] - 256 ELSE b[4])

RECURSIVE Flatten(_)
Flatten(words) == IF words = <<>> THEN <<>> ELSE Head(words) \o Flatten(Tail(words))

\* te_export_binary with *buf_size = buf_size on entry: the bytes written to
\* buf (old unless written), *buf_size on return, and the error code.
te_export_binary(ctx, old, buf_size) ==
    LET needed == 4 + ctx.n_tokens * 4
    IN IF buf_size < needed
       THEN [bytes |-> old, size |-> needed, err |-> "TE_ERROR_BUFFER_TOO_SMALL"]
       ELSE [bytes |-> WordBytes(ctx.n_tokens)
                          \o Flatten([i \in 1..ctx.n_tokens |-> WordBytes(ctx.tokens[i])]),
             size |-> needed,
             err |-> "TE_OK"]

\* te_import_binary on a buffer of bytes, buf_size = Len(buf).
te_import_bytes(ctx, buf) ==
    IF Len(buf) < 4 THEN Result(ctx, "TE_ERROR_BUFFER_TOO_SMALL")
    ELSE LET count == CountOfBytes(SubSeq(buf, 1, 4))
             words == (Len(buf) - 4) \div 4
             data == [i \in 1..words |-> TokenOfBytes(SubSeq(buf, 4 * i + 1, 4 * i + 4))]
         IN te_import_binary(ctx, count, data)

(* ------------------------------------------------------------------ *)
(* Environment of context nodes (recursive_llm.c)                       *)
(* ------------------------------------------------------------------ *)

\* The null rllm_context_t pointer.
NULLCTX == -1

\* rllm_share_mode_t
ShareModes ==
    {"RLLM_SHARE_NONE", "RLLM_SHARE_KV_READ", "RLLM_SHARE_KV_COPY",
     "RLLM_SHARE_TOKENS_READ", "RLLM_SHARE_TOKENS_COPY", "RLLM_SHARE_FULL"}

\* A context pointer identifies the node by its id; env.nodes holds the
\* nodes that are allocated, so a pointer to a freed node is an id outside
\* DOMAIN env.nodes.
Live(env) == DOMAIN env.nodes

\* What the callbacks of one call have fired.
NoCallbacks == [create |-> 0, recursion |-> 0, destroy |-> 0]

\* The environment after rllm_init(model, config).
rllm_init(max_depth, max_contexts) ==
    [config |-> [max_depth |-> max_depth, max_contexts |-> max_contexts],
     contexts |-> <<>>,
     roots |-> <<>>,
     next_ctx_id |-> 0,
     peak_depth |-> 0,
     nodes |-> <<>>,
     fired |-> NoCallbacks,
     returned |-> NULLCTX]

\* The start of a public call: nothing fired yet.
Entered(env) == [env EXCEPT !.fired = NoCallbacks, !.returned = NULLCTX]

\* A function with one more (or one changed) entry.
With(f, k, v) == [x \in DOMAIN f \cup {k} |-> IF x = k THEN v ELSE f[x]]

\* free(ctx): the node is no longer allocated.
Freed(env, ids) ==
    [env EXCEPT !.nodes = [x \in DOMAIN env.nodes \ ids |-> env.nodes[x]]]

\* ctx = calloc(...) with the fields rllm_alloc_context sets, appended to
\* the pool; NULLCTX when the pool is full.
rllm_alloc_context(env) ==
    IF Len(env.contexts) >= env.config.max_contexts
    THEN [env |-> env, ctx |-> NULLCTX]
    ELSE LET id == env.next_ctx_id
             node == [id |-> id,
                      state |-> "RLLM_STATE_IDLE",
                      relation |-> "RLLM_REL_ROOT",
                      parent |-> NULLCTX,
                      depth |-> 0,
                      children |-> <<>>,
                      token_editor |-> te_init]
         IN [env |-> [env EXCEPT !.next_ctx_id = id + 1,
                                 !.nodes = With(env.nodes, id, node),
                                 !.contexts = Append(env.contexts, id)],
             ctx |-> id]

\* The first entry equal to ctx leaves the sequence.
RECURSIVE RemoveFirst(_, _)
RemoveFirst(seq, ctx) ==
    IF seq = <<>> THEN <<>>
    ELSE IF Head(seq) = ctx THEN Tail(seq)
    ELSE <<Head(seq)>> \o RemoveFirst(Tail(seq), ctx)

rllm_remove_from_pool(env, ctx) ==
    [env EXCEPT !.contexts = RemoveFirst(env.contexts, ctx)]

rllm_add_child(env, parent, child) ==
    IF parent = NULLCTX \/ child = NULLCTX THEN env
    ELSE [env EXCEPT !.nodes[parent].children = Append(@, child),
                     !.nodes[child].parent = parent,
                     !.nodes[child].depth = env.nodes[parent].depth + 1]

rllm_remove_child(env, parent, child) ==
    IF parent = NULLCTX \/ child = NULLCTX THEN env
    ELSE IF \E i \in 1..Len(env.nodes[parent].children) :
               env.nodes[parent].children[i] = child
    THEN [env EXCEPT !.nodes[parent].children = RemoveFirst(@, child),
                     !.nodes[child].parent = NULLCTX]
    ELSE env

\* The nodes rllm_free_context_internal(ctx) frees: ctx and, through the
\* child lists, every descendant.
RECURSIVE Subtree(_, _)
Subtree(env, ctx) ==
    {ctx} \cup UNION {Subtree(env, env.nodes[ctx].children[i]) :
                         i \in 1..Len(env.nodes[ctx].children)}

rllm_free_context_internal(env, ctx) ==
    IF ctx = NULLCTX THEN env ELSE Freed(env, Subtree(env, ctx))

\* The failure path of the creators after llama_new_context_with_model or
\* te_init returned null.
Abandoned(env, ctx) == Freed(rllm_remove_from_pool(env, ctx), {ctx})

\* te_get_tokens into a buffer of n_out cells: the tokens copied, or
\* TE_ERROR_BUFFER_TOO_SMALL with nothing copied.
te_get_tokens(ctx, range, n_out) ==
    LET start == Max(range.start, 0)
        end == Min(range.end, ctx.n_tokens)
    IN IF start >= end THEN [out |-> <<>>, err |-> "TE_OK"]
       ELSE IF end - start > n_out
       THEN [out |-> <<>>, err |-> "TE_ERROR_BUFFER_TOO_SMALL"]
       ELSE [out |-> Cells(ctx.tokens, start, end - start), err |-> "TE_OK"]

\* The result of a creator: the environment, the pointer returned and the
\* callbacks fired on the way.
Returned(env, ctx, fired) ==
    [env EXCEPT !.returned = ctx, !.fired = fired]

rllm_create_root(env0, llama_ok) ==
    LET env == Entered(env0)
        a == rllm_alloc_context(env)
    IN IF a.ctx = NULLCTX THEN env
       ELSE IF ~llama_ok THEN Abandoned(a.env, a.ctx)
       ELSE LET made == [a.env EXCEPT !.nodes[a.ctx].relation = "RLLM_REL_ROOT",
                                      !.nodes[a.ctx].depth = 0]
                rooted == IF Len(made.roots) < n_roots_cap
                          THEN [made EXCEPT !.roots = Append(@, a.ctx)]
                          ELSE made
            IN Returned(rooted, a.ctx, [NoCallbacks EXCEPT !.create = 1])

\* The tokens rllm_spawn_child puts into the child's editor.
Shared(env, parent, ctx, share_mode) ==
    IF share_mode \in {"RLLM_SHARE_TOKENS_COPY", "RLLM_SHARE_FULL"}
       /\ env.nodes[parent].token_editor.n_tokens > 0
    THEN LET parent_te == env.nodes[parent].token_editor
             got == te_get_tokens(parent_te, te_range_t(0, parent_te.n_tokens),
                                  parent_te.n_tokens)
         IN [env EXCEPT !.nodes[ctx].token_editor =
                te_insert_tokens(env.nodes[ctx].token_editor, 0, got.out).ctx]
    ELSE env

rllm_spawn_child(env0, parent, share_mode, llama_ok) ==
    LET env == Entered(env0)
    IN IF parent = NULLCTX THEN env
       ELSE IF env.nodes[parent].depth + 1 >= env.config.max_depth THEN env
       ELSE LET a == rllm_alloc_context(env)
            IN IF a.ctx = NULLCTX THEN env
               ELSE IF ~llama_ok THEN Abandoned(a.env, a.ctx)
               ELSE LET made == [a.env EXCEPT !.nodes[a.ctx].relation = "RLLM_REL_CHILD"]
                        filled == Shared(made, parent, a.ctx, share_mode)
                        linked == rllm_add_child(filled, parent, a.ctx)
                        peaked == [linked EXCEPT !.peak_depth =
                                      Max(@, linked.nodes[a.ctx].depth)]
                    IN Returned(peaked, a.ctx,
                                [NoCallbacks EXCEPT !.create = 1, !.recursion = 1])

rllm_fork(env0, source, llama_ok) ==
    IF source = NULLCTX THEN Entered(env0)
    ELSE LET r == rllm_spawn_child(env0, env0.nodes[source].parent,
                                   "RLLM_SHARE_FULL", llama_ok)
         IN IF r.returned = NULLCTX THEN r
            ELSE [r EXCEPT !.nodes[r.returned].relation = "RLLM_REL_FORK"]

rllm_create_peer(env0, peer, llama_ok) ==
    LET env == Entered(env0)
    IN IF peer = NULLCTX THEN env
       ELSE LET a == rllm_alloc_context(env)
            IN IF a.ctx = NULLCTX THEN env
               ELSE IF ~llama_ok THEN Abandoned(a.env, a.ctx)
               ELSE LET made == [a.env EXCEPT
                                    !.nodes[a.ctx].relation = "RLLM_REL_PEER",
                                    !.nodes[a.ctx].depth = env.nodes[peer].depth,
                                    !.nodes[a.ctx].parent = env.nodes[peer].parent]
                        linked == IF env.nodes[peer].parent # NULLCTX
                                  THEN rllm_add_child(made, env.nodes[peer].parent, a.ctx)
                                  ELSE made
                    IN Returned(linked, a.ctx, [NoCallbacks EXCEPT !.create = 1])

rllm_destroy(env0, ctx) ==
    LET env == Entered(env0)
    IN IF ctx = NULLCTX THEN env
       ELSE LET orphan == IF env.nodes[ctx].parent # NULLCTX
                          THEN rllm_remove_child(env, env.nodes[ctx].parent, ctx)
                          ELSE env
                unrooted == [orphan EXCEPT !.roots = RemoveFirst(@, ctx)]
                unpooled == rllm_remove_from_pool(unrooted, ctx)
                freed == rllm_free_context_internal(unpooled, ctx)
            IN [freed EXCEPT !.fired = [NoCallbacks EXCEPT !.destroy = 1]]

\* What rllm_get_context(env, id) can return. It reads the id through
\* every pool entry up to the match: an entry that points to a freed node
\* may read as any id, so such an entry is a possible result, and so is
\* whatever the scan would have found had the entry not matched.
rllm_get_context(env, id) ==
    LET pool == {env.contexts[i] : i \in 1..Len(env.contexts)}
        dangling == pool \ Live(env)
        matching == {c \in pool \cap Live(env) : env.nodes[c].id = id}
    IN dangling \cup matching \cup (IF matching = {} THEN {NULLCTX} ELSE {})

\* rllm_append_prompt with a text the tokenizer turns into tokens.
rllm_append_prompt(env, ctx, tokens) ==
    LET editor == env.nodes[ctx].token_editor
    IN [Entered(env) EXCEPT !.nodes[ctx].token_editor =
           te_insert_tokens(editor, editor.n_tokens, tokens).ctx]

(* ------------------------------------------------------------------ *)
(* Generation driver (rllm_complete)                                    *)
(* ------------------------------------------------------------------ *)

\* A token llama_token_is_eog accepts.
TokenEog == 2

\* The context as rllm_alloc_context leaves it, before the first call.
\* state .. tokens_generated are fields of rllm_context_t and on_complete
\* tells whether the callback is set. The rest describes the call: at
\* "call" no rllm_complete is running, at "loop" one stands at the head of
\* its generation loop with counter i; returned is the code of the last
\* return, completed the number of on_complete invocations of the call,
\* decoded the outcome of the adapter decode of the last step and sampled
\* whether the last step sampled a token.
Allocated(on_complete) ==
    [state |-> "RLLM_STATE_IDLE",
     tokens_generated |-> 0,
     on_complete |-> on_complete,
     at |-> "call",
     i |-> 0,
     n_predict |-> 0,
     timeout_ms |-> 0,
     returned |-> "none",
     completed |-> 0,
     decoded |-> "none",
     sampled |-> FALSE,
     told |-> <<>>]

\* told: the tokens the last step passed to on_token, with on_token installed.
Step(g, editor, cache) == [gen |-> g, te |-> editor, kv |-> cache]

\* The cache after llama_decode of the one token at position pos.
KvDecoded(cache, pos, token) ==
    {c \in cache : c.pos # pos} \cup {[pos |-> pos, tok |-> token]}

\* rllm_complete from its entry to the head of the generation loop.
\* params: n_predict and timeout_ms (0: no timeout).
rllm_complete_enter(g, editor, cache, params, decode_ok, sampling_ok) ==
    IF g.state = "RLLM_STATE_RUNNING"
    THEN Step([g EXCEPT !.returned = "RLLM_ERROR_CONTEXT_BUSY",
                        !.decoded = "none", !.sampled = FALSE, !.told = <<>>],
              editor, cache)
    ELSE LET synced == te_sync_kv_cache(editor, cache, decode_ok)
             running == [g EXCEPT !.state = "RLLM_STATE_RUNNING",
                                  !.tokens_generated = 0,
                                  !.n_predict = params.n_predict,
                                  !.timeout_ms = params.timeout_ms,
                                  !.i = 0,
                                  !.completed = 0,
                                  !.returned = "none",
                                  !.sampled = FALSE,
                                  !.told = <<>>,
                                  !.decoded =
                                     IF ~editor.kv_cache_dirty \/ editor.n_tokens = 0
                                     THEN "none"
                                     ELSE IF decode_ok THEN "ok" ELSE "failed"]
         IN IF ~sampling_ok
            THEN Step([running EXCEPT !.state = "RLLM_STATE_ERROR",
                                      !.returned = "RLLM_ERROR_MEMORY"],
                      synced.ctx, synced.kv)
            ELSE Step([running EXCEPT !.at = "loop"], synced.ctx, synced.kv)

\* The end of rllm_complete after the loop.
rllm_complete_finish(g, editor, cache) ==
    Step([g EXCEPT !.state = "RLLM_STATE_COMPLETE",
                   !.completed = IF g.on_complete THEN @ + 1 ELSE @,
                   !.returned = "RLLM_OK",
                   !.at = "call",
                   !.decoded = "none", !.sampled = FALSE, !.told = <<>>],
         editor, cache)

\* The return of rllm_complete out of the loop with state = ERROR.
Failing(g, err) ==
    [g EXCEPT !.state = "RLLM_STATE_ERROR", !.returned = err, !.at = "call"]

\* A timeout exit that returns without setting the state.
rllm_complete_iteration_left_running(g, editor, cache, timed_out, malloc_ok, next_token, decode_ok) ==
    LET seen == [g EXCEPT !.decoded = "none", !.sampled = FALSE, !.told = <<>>]
    IN IF g.i >= g.n_predict THEN rllm_complete_finish(seen, editor, cache)
       ELSE IF g.timeout_ms > 0 /\ timed_out
       THEN Step([seen EXCEPT !.returned = "RLLM_ERROR_TIMEOUT", !.at = "call"],
                 editor, cache)
       ELSE IF ~malloc_ok THEN Step(Failing(seen, "RLLM_ERROR_MEMORY"), editor, cache)
       ELSE IF next_token = TokenEog
       THEN rllm_complete_finish([seen EXCEPT !.sampled = TRUE], editor, cache)
       ELSE LET inserted == te_insert_tokens(editor, editor.n_tokens, <<next_token>>).ctx
                counted == [seen EXCEPT !.sampled = TRUE, !.tokens_generated = @ + 1,
                                       !.told = <<next_token>>]
            IN IF ~decode_ok
               THEN Step([Failing(counted, "RLLM_ERROR_MODEL") EXCEPT !.decoded = "failed"],
                         inserted, cache)
               ELSE Step([counted EXCEPT !.decoded = "ok", !.i = @ + 1],
                         inserted, KvDecoded(cache, inserted.n_tokens - 1, next_token))

\* rllm_complete at the head of its loop: the loop test and, when it
\* passes, one iteration. timed_out: elapsed > timeout_ms; malloc_ok: the
\* candidates array is allocated; next_token: what the sampler returns;
\* decode_ok: whether llama_decode returns 0.
rllm_complete_iteration(g, editor, cache, timed_out, malloc_ok, next_token, decode_ok) ==
    LET seen == [g EXCEPT !.decoded = "none", !.sampled = FALSE, !.told = <<>>]
    IN IF g.i >= g.n_predict THEN rllm_complete_finish(seen, editor, cache)
       ELSE IF g.timeout_ms > 0 /\ timed_out
       THEN Step(Failing(seen, "RLLM_ERROR_TIMEOUT"), editor, cache)
       ELSE IF ~malloc_ok THEN Step(Failing(seen, "RLLM_ERROR_MEMORY"), editor, cache)
       ELSE IF next_token = TokenEog
       THEN rllm_complete_finish([seen EXCEPT !.sampled = TRUE], editor, cache)
       ELSE LET inserted == te_insert_tokens(editor, editor.n_tokens, <<next_token>>).ctx
                counted == [seen EXCEPT !.sampled = TRUE, !.tokens_generated = @ + 1,
                                       !.told = <<next_token>>]
            IN IF ~decode_ok
               THEN Step([Failing(counted, "RLLM_ERROR_MODEL") EXCEPT !.decoded = "failed"],
                         inserted, cache)
               ELSE Step([counted EXCEPT !.decoded = "ok", !.i = @ + 1],
                         inserted, KvDecoded(cache, inserted.n_tokens - 1, next_token))

(* ------------------------------------------------------------------ *)
(* Mailbox of a context (rllm_send_message, rllm_recv_message)          *)
(* ------------------------------------------------------------------ *)

\* The null data pointer.
NULLPTR == 0

\* The addresses malloc can return for message data.
Blocks == 1..MaxBlocks

\* The address of the buffer the sender passes in msg->data.
CallerData == MaxBlocks + 1

\* A zeroed rllm_message_t, as calloc leaves the slots of the ring.
ZeroMessage ==
    [type |-> "RLLM_MSG_TOKENS", sender |-> 0, receiver |-> 0,
     data_size |-> 0, data |-> NULLPTR]

\* A block of the heap: whether it is allocated, its bytes, and who is to
\* free it ("mailbox" while the message is queued, "caller" once received).
NoBlock == [live |-> FALSE, bytes |-> <<>>, owner |-> "none"]

\* The id of the receiving context.
ReceiverId == 0

\* The sending threads, each named by the id of the context it sends from.
SenderThreads == {1, 2}

\* The receiving context after rllm_alloc_context, with the heap its
\* message data lives in. The ring is message_queue[0 .. queue_capacity).
\* out is the rllm_message_t the receiving thread passes to
\* rllm_recv_message, rx its call: at "call" none is running, at "wait" one
\* stands at its loop test with elapsed ms on the clock. returned is the
\* code of the last return of send and of recv. pending lists the messages
\* whose send returned Ok and which no recv has returned, as they were sent;
\* undefined tells that free was called on a block that is not allocated
\* or on a pointer the mailbox did not allocate. tx holds, for each sending
\* thread, how far its rllm_send_message has come ("call": not running,
\* "write": past the full test, "publish": slot written), its local
\* next_tail and its message.
Mailbox ==
    [message_queue |-> [i \in 0..(queue_capacity - 1) |-> ZeroMessage],
     queue_head |-> 0,
     queue_tail |-> 0,
     alive |-> TRUE,
     heap |-> [p \in Blocks |-> NoBlock],
     out |-> ZeroMessage,
     rx |-> [at |-> "call", timeout_ms |-> 0, elapsed |-> 0],
     sent |-> "none",
     received |-> "none",
     pending |-> <<>>,
     undefined |-> FALSE,
     notified |-> <<>>,
     tx |-> [t \in SenderThreads |->
                [at |-> "call", next_tail |-> 0, msg |-> ZeroMessage,
                 sent |-> "none"]]]

\* notified: the index i of the &message_queue[i] the last send passed to
\* on_message, with on_message installed; <<>> when it called none.
\* queue_tail - 1 is evaluated in size_t: for queue_tail 0 the address is
\* the one of the element before message_queue[0], written -1.

\* free(p)
Free(m, p) ==
    IF p = NULLPTR THEN m
    ELSE IF p \in Blocks /\ m.heap[p].live
    THEN [m EXCEPT !.heap[p] = NoBlock]
    ELSE [m EXCEPT !.undefined = TRUE]

\* A message as the sender fills it in: data is NULLPTR or CallerData, the
\* buffer holding bytes.
Message(type, data, data_size) ==
    [type |-> type, sender |-> 0, receiver |-> 0, data_size |-> data_size, data |-> data]

\* rllm_send_message(from, to, msg) on the receiving context. bytes: what
\* the caller's buffer holds; block: the address malloc returns, NULLPTR
\* when it fails.
rllm_send_message(m, from, msg, bytes, block) ==
    LET next_tail == (m.queue_tail + 1) % queue_capacity
    IN IF next_tail = m.queue_head
       THEN [m EXCEPT !.sent = "RLLM_ERROR_MEMORY", !.notified = <<>>]
       ELSE LET stamped == [msg EXCEPT !.sender = from, !.receiver = ReceiverId]
                copying == msg.data # NULLPTR /\ msg.data_size > 0
                slot == IF copying THEN [stamped EXCEPT !.data = block] ELSE stamped
                heap == IF copying /\ block # NULLPTR
                        THEN [m.heap EXCEPT ![block] =
                                 [live |-> TRUE, bytes |-> Prefix(bytes, msg.data_size),
                                  owner |-> "mailbox"]]
                        ELSE m.heap
            IN [m EXCEPT !.message_queue[m.queue_tail] = slot,
                         !.heap = heap,
                         !.queue_tail = next_tail,
                         !.sent = "RLLM_OK",
                         !.notified = <<next_tail - 1>>,
                         !.pending = Append(@, [sender |-> from, type |-> msg.type,
                                                bytes |-> IF msg.data = NULLPTR THEN <<>>
                                                          ELSE Prefix(bytes, msg.data_size)])]

\* rllm_send_message of thread t, one access to the shared ring at a time:
\* the full test on queue_tail and queue_head,
rllm_send_message_test(m, t, msg) ==
    LET next_tail == (m.queue_tail + 1) % queue_capacity
    IN IF next_tail = m.queue_head
       THEN [m EXCEPT !.tx[t].sent = "RLLM_ERROR_MEMORY", !.notified = <<>>]
       ELSE [m EXCEPT !.tx[t] = [at |-> "write", next_tail |-> next_tail,
                                 msg |-> [msg EXCEPT !.sender = t,
                                                     !.receiver = ReceiverId],
                                 sent |-> "none"]]

\* the store of the message into the slot queue_tail names at that moment,
rllm_send_message_store(m, t) ==
    [m EXCEPT !.message_queue[m.queue_tail] = m.tx[t].msg,
              !.tx[t].at = "publish"]

\* and the store of the local next_tail into queue_tail, with the return.
rllm_send_message_publish(m, t) ==
    [m EXCEPT !.queue_tail = m.tx[t].next_tail,
              !.tx[t].at = "call",
              !.tx[t].sent = "RLLM_OK",
              !.notified = <<m.tx[t].next_tail - 1>>,
              !.pending = Append(@, [sender |-> t, type |-> m.tx[t].msg.type,
                                     bytes |-> <<>>])]

rllm_has_messages(m) == m.queue_head # m.queue_tail

\* rllm_recv_message(ctx, msg, timeout_ms) up to its loop.
rllm_recv_message_enter(m, timeout_ms) ==
    [m EXCEPT !.rx = [at |-> "wait", timeout_ms |-> timeout_ms, elapsed |-> 0],
              !.received = "none"]

\* The ring keeps the data pointer of the slot it hands out.
Dequeued(m) ==
    [m EXCEPT !.out = m.message_queue[m.queue_head],
              !.heap = IF m.message_queue[m.queue_head].data \in Blocks
                       THEN [m.heap EXCEPT ![m.message_queue[m.queue_head].data].owner =
                                "caller"]
                       ELSE m.heap,
              !.queue_head = (m.queue_head + 1) % queue_capacity,
              !.pending = IF @ = <<>> THEN @ ELSE Tail(@),
              !.received = "RLLM_OK",
              !.rx.at = "call"]

\* A wait loop that applies the timeout test to timeout_ms = 0 as well.
rllm_recv_message_poll_always_timed(m) ==
    IF m.queue_head # m.queue_tail THEN Dequeued(m)
    ELSE IF m.rx.elapsed > m.rx.timeout_ms
    THEN [m EXCEPT !.received = "RLLM_ERROR_TIMEOUT", !.rx.at = "call"]
    ELSE [m EXCEPT !.rx.elapsed = Min(@ + 1, MaxTimeout + 1)]

\* rllm_recv_message at its loop test: the message at head, the timeout,
\* or one nanosleep of a millisecond.
rllm_recv_message_poll(m) ==
    IF m.queue_head # m.queue_tail THEN Dequeued(m)
    ELSE IF m.rx.timeout_ms > 0 /\ m.rx.elapsed > m.rx.timeout_ms
    THEN [m EXCEPT !.received = "RLLM_ERROR_TIMEOUT", !.rx.at = "call"]
    ELSE IF m.rx.timeout_ms > 0
    THEN [m EXCEPT !.rx.elapsed = Min(@ + 1, MaxTimeout + 1)]
    ELSE m

\* rllm_free_message(&out) by the receiving thread.
rllm_free_message(m) ==
    [Free(m, m.out.data) EXCEPT !.out.data = NULLPTR, !.out.data_size = 0]

\* The mailbox part of rllm_free_context_internal: free of the data
\* pointer of every slot of the ring.
RECURSIVE FreeSlots(_, _)
FreeSlots(m, i) ==
    IF i >= queue_capacity THEN m
    ELSE FreeSlots(Free(m, m.message_queue[i].data), i + 1)

FreeMailbox(m) == [FreeSlots(m, 0) EXCEPT !.alive = FALSE]

(* ------------------------------------------------------------------ *)
(* Creation on two threads (rllm_alloc_context)                         *)
(* ------------------------------------------------------------------ *)

\* The threads that call the creators.
CreatorThreads == {1, 2}

\* An empty cell of env->contexts.
NoContext == [by |-> 0, nth |-> 0, id |-> -1]

\* The pool data of an environment that rllm_alloc_context reads and
\* writes: contexts[0 ..], n_contexts and next_ctx_id. A context is named by
\* the thread that allocated it and the count of that thread's allocations.
\* thr holds, for each thread, how far its rllm_alloc_context has come
\* ("call": not running, then "take", "bump", "count", "append"), the
\* context it is building and the n_contexts it has read; made is the set
\* of contexts the creators have returned.
SharedPool ==
    [contexts |-> [i \in 0..(MaxContexts + 1) |-> NoContext],
     n_contexts |-> 0,
     next_ctx_id |-> 0,
     thr |-> [t \in CreatorThreads |->
                 [at |-> "call", ctx |-> NoContext, n |-> 0, nth |-> 0]],
     made |-> {}]

\* rllm_alloc_context of thread t, one access to the shared data at a time:
\* the test of n_contexts against max_contexts (null is returned when full),
rllm_alloc_context_test(r, t) ==
    IF r.n_contexts >= MaxContexts THEN r
    ELSE [r EXCEPT !.thr[t].at = "take",
                   !.thr[t].nth = @ + 1,
                   !.thr[t].ctx = [by |-> t, nth |-> r.thr[t].nth + 1, id |-> -1]]

\* the read of next_ctx_id into ctx->id,
rllm_alloc_context_take(r, t) ==
    [r EXCEPT !.thr[t].ctx.id = r.next_ctx_id, !.thr[t].at = "bump"]

\* the store of the incremented value,
rllm_alloc_context_bump(r, t) ==
    [r EXCEPT !.next_ctx_id = r.thr[t].ctx.id + 1, !.thr[t].at = "count"]

\* the read of n_contexts for the append,
rllm_alloc_context_count(r, t) ==
    [r EXCEPT !.thr[t].n = r.n_contexts, !.thr[t].at = "append"]

\* and the stores of contexts[n] and of n + 1 into n_contexts, with the return.
rllm_alloc_context_append(r, t) ==
    [r EXCEPT !.contexts[r.thr[t].n] = r.thr[t].ctx,
              !.n_contexts = r.thr[t].n + 1,
              !.made = @ \cup {r.thr[t].ctx},
              !.thr[t].at = "call"]

(* ------------------------------------------------------------------ *)
(* The token_info array of the editor                                   *)
(* ------------------------------------------------------------------ *)

\* What is kept of a te_token_info_t: the token and its position.
te_token_info_t(id, pos) == [id |-> id, pos |-> pos]

\* A cell realloc added and nothing has written.
IndetInfo == te_token_info_t(Indet, Indet)

\* token_info = calloc(capacity, sizeof(te_token_info_t)) of te_init.
te_init_token_info == [i \in 1..TE_DEFAULT_CAPACITY |-> te_token_info_t(0, 0)]

\* The entries te_insert_tokens / te_replace_tokens / te_import_binary
\* write for tokens placed at start and after.
InfoOf(tokens, start) ==
    [i \in 1..Len(tokens) |-> te_token_info_t(tokens[i], start + i - 1)]

\* te_ensure_capacity: realloc of token_info to the new capacity.
te_ensure_capacity_info(ctx, info, required) ==
    LET grown == te_ensure_capacity(ctx, required)
    IN [i \in 1..grown.capacity |-> IF i <= Len(info) THEN info[i] ELSE IndetInfo]

\* token_info after te_set_token(ctx, pos, token): the id only.
te_set_token_info(ctx, info, pos, token) ==
    IF ctx.readonly \/ pos < 0 \/ pos >= ctx.n_tokens THEN info
    ELSE [info EXCEPT ![pos + 1].id = token]

\* token_info after te_insert_tokens(ctx, pos, tokens): the tail moves up
\* as it is, the new entries are written.
te_insert_tokens_info(ctx, info, pos, tokens) ==
    IF ctx.readonly \/ pos < 0 \/ pos > ctx.n_tokens \/ Len(tokens) = 0 THEN info
    ELSE LET n == Len(tokens)
             grown == te_ensure_capacity_info(ctx, info, ctx.n_tokens + n)
             shifted == IF pos < ctx.n_tokens
                        THEN MemMove(grown, pos + n, pos, ctx.n_tokens - pos)
                        ELSE grown
         IN MemCpy(shifted, pos, InfoOf(tokens, pos))

\* token_info after te_delete_tokens(ctx, range): the tail moves down as
\* it is.
te_delete_tokens_info(ctx, info, range) ==
    IF ctx.readonly THEN info
    ELSE LET start == IF range.start < 0 THEN 0 ELSE range.start
             end == IF SizeGreater(range.end, ctx.n_tokens) THEN ctx.n_tokens ELSE range.end
         IN IF start >= end THEN info
            ELSE IF end < ctx.n_tokens
                 THEN MemMove(info, start, end, ctx.n_tokens - end)
                 ELSE info

\* token_info after te_replace_tokens(ctx, range, tokens).
te_replace_tokens_info(ctx, info, range, tokens) ==
    IF ctx.readonly THEN info
    ELSE LET start == IF range.start < 0 THEN 0 ELSE range.start
             end == IF SizeGreater(range.end, ctx.n_tokens) THEN ctx.n_tokens ELSE range.end
             old_count == IF start < end THEN end - start ELSE 0
             new_count == Len(tokens)
             new_total == ctx.n_tokens - old_count + new_count
             grown == te_ensure_capacity_info(ctx, info, new_total)
             shifted == IF new_count # old_count /\ end < ctx.n_tokens
                        THEN MemMove(grown, start + new_count, end, ctx.n_tokens - end)
                        ELSE grown
         IN IF new_count > 0 THEN MemCpy(shifted, start, InfoOf(tokens, start))
            ELSE shifted

\* token_info after te_undo: what the mutator te_undo replays does to it.
te_undo_info(ctx, info) ==
    IF ctx.history = <<>> THEN info
    ELSE LET op == ctx.history[Len(ctx.history)]
         IN CASE op.type = "TE_OP_INSERT" -> te_delete_tokens_info(ctx, info, op.source)
              [] op.type = "TE_OP_DELETE" ->
                    te_insert_tokens_info(ctx, info, op.source.start, op.tokens)
              [] op.type = "TE_OP_REPLACE" ->
                    te_replace_tokens_info(ctx, info, op.dest, op.tokens)
              [] OTHER -> info

\* token_info after te_redo.
te_redo_info(ctx, info) ==
    IF ctx.redo_stack = <<>> THEN info
    ELSE LET op == Head(ctx.redo_stack)
         IN CASE op.type = "TE_OP_INSERT" ->
                    te_insert_tokens_info(ctx, info, op.source.start, op.tokens)
              [] op.type = "TE_OP_DELETE" -> te_delete_tokens_info(ctx, info, op.source)
              [] op.type = "TE_OP_REPLACE" ->
                    te_replace_tokens_info(ctx, info, op.source, op.tokens)
              [] OTHER -> info

\* token_info after te_import_binary: every entry of the loaded tokens is
\* written anew.
te_import_binary_info(ctx, info, count, data) ==
    IF Len(data) < count THEN info
    ELSE MemCpy(te_ensure_capacity_info(te_clear(ctx).ctx, info, count), 0,
                InfoOf(SubSeq(data, 1, count), 0))

(* ------------------------------------------------------------------ *)
(* State                                                                *)
(* ------------------------------------------------------------------ *)

\* Before any call on a null handle.
NoCall == [op |-> "", returned |-> ""]

VARIABLES
    te,        \* the editor (te_context_t)
    kv,        \* the attention cache of the editor's llama_context
    snapshot,  \* <<>> or <<s>>: the te_snapshot_t the caller holds
    ret,       \* the error code the last call returned
    scn,       \* the run of recorded edits, undos and redos being observed
    wire,      \* the caller's buffer of te_export_binary / te_import_binary
    env,       \* the environment of context nodes (rllm_env_t)
    gen,       \* the context rllm_complete runs on, te being its token_editor
    mail,      \* the mailbox of one receiving context, its senders and the heap
    race,      \* the pool of an environment under creators on two threads
    call,      \* the last call made on a null handle, and what it returned
    token_info \* the editor's array of te_token_info_t, beside te.tokens

vars == <<te, kv, snapshot, ret, scn, wire, env, gen, mail, race, call, token_info>>

\* The state outside the editor, its cache and its snapshot.
rest == <<wire, env, gen, mail, race, call, token_info>>

ScnOff == [cls |-> "none", snaps |-> <<>>, final |-> <<>>, phase |-> "off", i |-> 0]

\* The last k elements of a sequence.
LastK(seq, k) == IF Len(seq) <= k THEN seq ELSE SubSeq(seq, Len(seq) - k + 1, Len(seq))

\* A recorded edit of class cls took the buffer from pre to post. A run of
\* insert / delete / clear edits ("idc") is followed up to the number of
\* entries the history keeps; a set_token / replace edit ("sr") alone.
ScnApply(s, cls, pre, post, limit) ==
    LET keep == IF limit = 0 THEN MaxHistory ELSE limit
    IN [cls |-> cls,
        snaps |-> IF cls = "idc" /\ s.cls = "idc" /\ s.phase = "apply"
                  THEN LastK(Append(s.snaps, pre), keep)
                  ELSE <<pre>>,
        final |-> post,
        phase |-> "apply",
        i |-> 0]

\* One more edit of the run is undone (i counts the edits undone).
ScnUndo(s) ==
    IF s.phase \in {"apply", "undo"} /\ s.i < Len(s.snaps)
    THEN [s EXCEPT !.phase = "undo", !.i = @ + 1]
    ELSE ScnOff

\* Once the whole run is undone, the redos reapply it one by one.
ScnRedo(s) ==
    IF (s.phase = "undo" /\ s.i = Len(s.snaps)) \/ (s.phase = "redo" /\ s.i > 0)
    THEN [s EXCEPT !.phase = "redo", !.i = @ - 1]
    ELSE ScnOff

\* The observer after a mutator: a successful recorded edit of class cls
\* extends or starts a run; a call that changed nothing leaves the run.
Track(cls, recorded) ==
    scn' = IF ret' = "TE_OK" /\ recorded
           THEN ScnApply(scn, cls, Contents(te), Contents(te'), te.history_limit)
           ELSE IF te' = te THEN scn ELSE ScnOff

TrackUndo == scn' = IF te.history = <<>> THEN scn ELSE ScnUndo(scn)

TrackRedo == scn' = IF te.redo_stack = <<>> THEN scn ELSE ScnRedo(scn)

\* A call outside the runs observed ends the run.
TrackOther == scn' = IF te' = te THEN scn ELSE ScnOff

\* The explored states stay within the bounds.
Within(len, hist) == te'.n_tokens <= len /\ Len(te'.history) <= hist

InitEditor ==
    /\ te = te_init
    /\ kv = {}
    /\ snapshot = <<>>
    /\ ret = "TE_OK"
    /\ scn = ScnOff
    /\ wire = [bytes |-> <<>>, size |-> 0, src |-> <<>>]
    /\ mail = Mailbox
    /\ race = SharedPool
    /\ call = NoCall
    /\ token_info = te_init_token_info

Init ==
    /\ InitEditor
    /\ env = rllm_init(MaxDepth, MaxContexts)
    /\ gen = Allocated(TRUE)

\* An environment of any max_depth, zero included: rllm_init takes the
\* configuration as the client filled it in.
InitEnv ==
    /\ InitEditor
    /\ \E max_depth \in 0..MaxDepth : env = rllm_init(max_depth, MaxContexts)
    /\ gen = Allocated(TRUE)

\* A context with or without an on_complete callback.
InitComplete ==
    /\ InitEditor
    /\ env = rllm_init(MaxDepth, MaxContexts)
    /\ \E on_complete \in BOOLEAN : gen = Allocated(on_complete)

(* ------------------------------------------------------------------ *)
(* Calls of the client                                                  *)
(* ------------------------------------------------------------------ *)

SetToken(pos, token) ==
    LET r == te_set_token(te, pos, token)
    IN /\ te' = r.ctx
       /\ ret' = r.err
       /\ UNCHANGED <<kv, snapshot, rest>>

InsertTokens(pos, tokens) ==
    LET r == te_insert_tokens(te, pos, tokens)
    IN /\ te' = r.ctx
       /\ ret' = r.err
       /\ UNCHANGED <<kv, snapshot, rest>>

DeleteTokens(start, end) ==
    LET r == te_delete_tokens(te, te_range_t(start, end))
    IN /\ te' = r.ctx
       /\ ret' = r.err
       /\ UNCHANGED <<kv, snapshot, rest>>

ReplaceTokens(start, end, tokens) ==
    LET r == te_replace_tokens(te, te_range_t(start, end), tokens)
    IN /\ ReplaceInBounds(te, te_range_t(start, end), tokens)
       /\ te' = r.ctx
       /\ ret' = r.err
       /\ UNCHANGED <<kv, snapshot, rest>>

Clear ==
    LET r == te_clear(te)
    IN /\ te' = r.ctx
       /\ ret' = r.err
       /\ UNCHANGED <<kv, snapshot, rest>>

Undo ==
    LET r == te_undo(te)
    IN /\ te' = r.ctx
       /\ ret' = r.err
       /\ UNCHANGED <<kv, snapshot, rest>>

Redo ==
    LET r == te_redo(te)
    IN /\ te' = r.ctx
       /\ ret' = r.err
       /\ UNCHANGED <<kv, snapshot, rest>>

ClearHistory ==
    /\ te' = te_clear_history(te)
    /\ ret' = "TE_OK"
    /\ UNCHANGED <<kv, snapshot, rest>>

SetHistoryLimit(limit) ==
    /\ te' = te_set_history_limit(te, limit)
    /\ ret' = "TE_OK"
    /\ UNCHANGED <<kv, snapshot, rest>>

\* The owner of the editor writes the readonly field of te_context_t.
SetReadonly(flag) ==
    /\ te' = [te EXCEPT !.readonly = flag]
    /\ UNCHANGED <<kv, snapshot, ret, rest>>

ImportBinary(count, data) ==
    LET r == te_import_binary(te, count, data)
    IN /\ te' = r.ctx
       /\ ret' = r.err
       /\ UNCHANGED <<kv, snapshot, rest>>

SyncKvCache(decode_ok) ==
    LET r == te_sync_kv_cache(te, kv, decode_ok)
    IN /\ te' = r.ctx
       /\ kv' = r.kv
       /\ ret' = r.err
       /\ UNCHANGED <<snapshot, rest>>

InvalidateKvRange(start, end) ==
    LET r == te_invalidate_kv_range(te, kv, te_range_t(start, end))
    IN /\ te' = r.ctx
       /\ kv' = r.kv
       /\ ret' = r.err
       /\ UNCHANGED <<snapshot, rest>>

ClearKvCache ==
    LET r == te_clear_kv_cache(te, kv)
    IN /\ te' = r.ctx
       /\ kv' = r.kv
       /\ ret' = r.err
       /\ UNCHANGED <<snapshot, rest>>

ShiftKvCache(delta) ==
    LET r == te_shift_kv_cache(te, kv, delta)
    IN /\ te' = r.ctx
       /\ kv' = r.kv
       /\ ret' = r.err
       /\ UNCHANGED <<snapshot, rest>>

DeleteSequence(seq_id) ==
    LET r == te_delete_sequence(te, kv, seq_id)
    IN /\ te' = r.ctx
       /\ kv' = r.kv
       /\ ret' = r.err
       /\ UNCHANGED <<snapshot, rest>>

\* ret holds the id returned, written as a string.
CreateSequence ==
    LET r == te_create_sequence(te)
    IN /\ te' = r.ctx
       /\ ret' = ToString(r.id)
       /\ UNCHANGED <<kv, snapshot, rest>>

ForkSequence(src) ==
    LET r == te_fork_sequence(te, kv, src)
    IN /\ te' = r.ctx
       /\ kv' = r.kv
       /\ ret' = ToString(r.id)
       /\ UNCHANGED <<snapshot, rest>>

\* The caller keeps one snapshot at a time and frees the one it replaces.
CreateSnapshot(blob_ok) ==
    /\ snapshot' = <<te_create_snapshot(te, kv, blob_ok)>>
    /\ ret' = "TE_OK"
    /\ UNCHANGED <<te, kv, rest>>

RestoreSnapshot ==
    /\ snapshot # <<>>
    /\ LET r == te_restore_snapshot(te, kv, snapshot[1])
       IN /\ te' = r.ctx
          /\ kv' = r.kv
          /\ ret' = r.err
    /\ UNCHANGED <<snapshot, rest>>

\* The caller passes a buffer of buf_size bytes; wire.src keeps the token
\* sequence of the editor that filled the buffer.
ExportBinary(buf_size) ==
    LET r == te_export_binary(te, wire.bytes, buf_size)
    IN /\ wire' = [bytes |-> r.bytes,
                   size |-> r.size,
                   src |-> IF r.err = "TE_OK" THEN Contents(te) ELSE wire.src]
       /\ ret' = r.err
       /\ UNCHANGED <<te, kv, snapshot, env, gen, mail, race, call, token_info>>

\* The caller passes the first len bytes of the buffer.
ImportBytes(len) ==
    LET r == te_import_bytes(te, SubSeq(wire.bytes, 1, len))
    IN /\ te' = r.ctx
       /\ ret' = r.err
       /\ UNCHANGED <<kv, snapshot, rest>>

\* The range leaves a token to delete, with the clamping the spec states.
NonEmptyRange(ctx, start, end) == Max(start, 0) < Min(end, ctx.n_tokens)

\* 0 <= start < end <= n_tokens
ValidRange(ctx, start, end) == 0 <= start /\ start < end /\ end <= ctx.n_tokens

(* ------------------------------------------------------------------ *)
(* Specifications                                                       *)
(* ------------------------------------------------------------------ *)

LogRange == 0..LogLen
AcctRange == 0..AcctLen
AcctPayloads == {<<>>, <<1>>, <<0, 1>>}
OneToken == {<<0>>, <<1>>}

\* The edit log under insertions, deletions and clears, with the run of
\* edits, undos and redos observed.
NextUndo ==
    \/ \E pos \in LogPositions, tokens \in Payloads :
          /\ InsertTokens(pos, tokens)
          /\ Track("idc", tokens # <<>>)
          /\ Within(LogLen, MaxHistory)
    \/ \E start \in LogPositions, end \in LogPositions :
          /\ DeleteTokens(start, end)
          /\ Track("idc", te'.n_tokens < te.n_tokens)
          /\ Within(LogLen, MaxHistory)
    \/ Clear /\ Track("idc", te.n_tokens > 0)
    \/ Undo /\ TrackUndo
    \/ Redo /\ TrackRedo

SpecUndo == Init /\ [][NextUndo]_vars

\* The edit log under set_token and replace_tokens, with the edit, its undo
\* and its redo observed.
NextReplace ==
    \/ \E pos \in LogRange, tokens \in OneToken :
          /\ InsertTokens(pos, tokens)
          /\ Track("idc", TRUE)
          /\ Within(LogLen, MaxHistory)
    \/ \E pos \in LogRange, token \in Token :
          SetToken(pos, token) /\ Track("sr", TRUE)
    \/ \E start \in LogRange, end \in LogRange, tokens \in AcctPayloads :
          /\ ReplaceTokens(start, end, tokens)
          /\ Track("sr", ValidRange(te, start, end))
          /\ Within(LogLen, MaxHistory)
    \/ Undo /\ TrackUndo /\ Within(LogLen, MaxHistory)
    \/ Redo /\ TrackRedo /\ Within(LogLen, MaxHistory)

SpecReplace == Init /\ [][NextReplace]_vars

\* Every mutator, undo and redo, with no run observed.
Next ==
    \/ \E pos \in AcctRange, token \in Token :
          SetToken(pos, token) /\ UNCHANGED scn
    \/ \E pos \in AcctRange, tokens \in AcctPayloads :
          InsertTokens(pos, tokens) /\ Within(AcctLen, MaxHistory) /\ UNCHANGED scn
    \/ \E start \in AcctRange, end \in AcctRange :
          DeleteTokens(start, end) /\ UNCHANGED scn
    \/ \E start \in AcctRange, end \in AcctRange, tokens \in AcctPayloads :
          ReplaceTokens(start, end, tokens) /\ Within(AcctLen, MaxHistory) /\ UNCHANGED scn
    \/ Clear /\ UNCHANGED scn
    \/ Undo /\ Within(AcctLen, MaxHistory) /\ UNCHANGED scn
    \/ Redo /\ Within(AcctLen, MaxHistory) /\ UNCHANGED scn

Spec == Init /\ [][Next]_vars

\* The edit log while the client changes the history limit.
NextLimit ==
    \/ \E pos \in LogRange, tokens \in OneToken :
          InsertTokens(pos, tokens) /\ Within(LogLen, MaxHistory) /\ UNCHANGED scn
    \/ Clear /\ Within(LogLen, MaxHistory) /\ UNCHANGED scn
    \/ Undo /\ Within(LogLen, MaxHistory) /\ UNCHANGED scn
    \/ Redo /\ Within(LogLen, MaxHistory) /\ UNCHANGED scn
    \/ \E limit \in 0..MaxHistory : SetHistoryLimit(limit) /\ UNCHANGED scn
    \/ ClearHistory /\ UNCHANGED scn

SpecLimit == Init /\ [][NextLimit]_vars

\* The cells of the attention cache stay below the context size.
CacheWithin == \A c \in kv' : c.pos <= AcctLen + 1

\* The editor, the attention cache and one snapshot.
NextCache ==
    \/ \E pos \in AcctRange, tokens \in OneToken :
          InsertTokens(pos, tokens) /\ Within(AcctLen, MaxHistory) /\ UNCHANGED scn
    \/ \E start \in AcctRange, end \in AcctRange :
          DeleteTokens(start, end) /\ UNCHANGED scn
    \/ \E decode_ok \in BOOLEAN : SyncKvCache(decode_ok) /\ UNCHANGED scn
    \/ \E start \in AcctRange, end \in AcctRange :
          InvalidateKvRange(start, end) /\ UNCHANGED scn
    \/ ClearKvCache /\ UNCHANGED scn
    \/ \E delta \in {-1, 1} : ShiftKvCache(delta) /\ CacheWithin /\ UNCHANGED scn
    \/ \E seq_id \in {0, 1} : DeleteSequence(seq_id) /\ UNCHANGED scn
    \/ \E blob_ok \in BOOLEAN : CreateSnapshot(blob_ok) /\ UNCHANGED scn
    \/ RestoreSnapshot /\ UNCHANGED scn

SpecCache == Init /\ [][NextCache]_vars

\* The calls of a client that marks the editor read-only and back.
NextReadonly ==
    \/ \E flag \in BOOLEAN : SetReadonly(flag) /\ UNCHANGED scn
    \/ \E pos \in AcctRange, token \in Token :
          SetToken(pos, token) /\ UNCHANGED scn
    \/ \E pos \in AcctRange, tokens \in OneToken :
          InsertTokens(pos, tokens) /\ Within(AcctLen, MaxHistory) /\ UNCHANGED scn
    \/ \E start \in AcctRange, end \in AcctRange :
          DeleteTokens(start, end) /\ UNCHANGED scn
    \/ \E start \in AcctRange, end \in AcctRange, tokens \in OneToken :
          ReplaceTokens(start, end, tokens) /\ Within(AcctLen, MaxHistory) /\ UNCHANGED scn
    \/ Clear /\ UNCHANGED scn
    \/ Undo /\ Within(AcctLen, MaxHistory) /\ UNCHANGED scn
    \/ Redo /\ Within(AcctLen, MaxHistory) /\ UNCHANGED scn
    \/ \E count \in AcctRange, data \in OneToken :
          ImportBinary(count, data) /\ UNCHANGED scn
    \/ \E blob_ok \in BOOLEAN : CreateSnapshot(blob_ok) /\ UNCHANGED scn
    \/ RestoreSnapshot /\ UNCHANGED scn

SpecReadonly == Init /\ [][NextReadonly]_vars

\* Insertions at every position inside and outside the buffer.
NextInsert ==
    \/ \E pos \in Positions, tokens \in Payloads :
          InsertTokens(pos, tokens) /\ Within(MaxLen, MaxHistory) /\ UNCHANGED scn
    \/ Clear /\ UNCHANGED scn
    \/ \E flag \in BOOLEAN : SetReadonly(flag) /\ UNCHANGED scn

SpecInsert == Init /\ [][NextInsert]_vars

\* Tokens whose bytes differ from one another in every position or order.
WireTokens == {<<-1>>, <<258>>}

\* Buffer sizes up to one word more than the largest export, whole words
\* and three bytes past them.
WireSizes == {4 * k + d : k \in 0..(AcctLen + 1), d \in {0, 3}}

\* Export to and import from a buffer of bytes.
NextBinary ==
    \/ \E pos \in AcctRange, tokens \in WireTokens :
          InsertTokens(pos, tokens) /\ Within(AcctLen, MaxHistory) /\ UNCHANGED scn
    \/ Clear /\ UNCHANGED scn
    \/ \E buf_size \in WireSizes : ExportBinary(buf_size) /\ UNCHANGED scn
    \/ \E len \in 0..Len(wire.bytes) : ImportBytes(len) /\ UNCHANGED scn

SpecBinary == Init /\ [][NextBinary]_vars

\* Edits between the taking and the restoring of a snapshot.
NextSnapshot ==
    \/ \E pos \in AcctRange, tokens \in OneToken :
          InsertTokens(pos, tokens) /\ Within(AcctLen, MaxHistory) /\ UNCHANGED scn
    \/ \E start \in AcctRange, end \in AcctRange :
          DeleteTokens(start, end) /\ UNCHANGED scn
    \/ Undo /\ Within(AcctLen, MaxHistory) /\ UNCHANGED scn
    \/ \E blob_ok \in BOOLEAN : CreateSnapshot(blob_ok) /\ UNCHANGED scn
    \/ RestoreSnapshot /\ UNCHANGED scn

SpecSnapshot == Init /\ [][NextSnapshot]_vars

(* ------------------------------------------------------------------ *)
(* C1: undo and redo of a run of insert / delete / clear edits          *)
(* ------------------------------------------------------------------ *)

\* C1. After a run of k <= history_limit recorded insert_tokens /
\* delete_tokens / clear calls, the j-th te_undo leaves the token sequence
\* that preceded the j-th last edit, and once all k are undone the k-th
\* te_redo leaves the token sequence that followed the last edit.
C1_UndoRedoRun ==
    scn.cls = "idc" =>
        /\ scn.phase = "undo" =>
              Contents(te) = scn.snaps[Len(scn.snaps) - scn.i + 1]
        /\ (scn.phase = "redo" /\ scn.i = 0) => Contents(te) = scn.final

\* Two edits were undone and redone.
C1_Witness ==
    /\ scn.cls = "idc"
    /\ scn.phase = "redo"
    /\ scn.i = 0
    /\ Len(scn.snaps) = 2
    /\ scn.snaps[1] # scn.snaps[2]
    /\ scn.final # <<>>

(* ------------------------------------------------------------------ *)
(* C2, C3: undo and redo of set_token and replace_tokens                *)
(* ------------------------------------------------------------------ *)

\* C2. After a successful te_set_token at a valid position, or a successful
\* te_replace_tokens over a valid non-empty range with any number of new
\* tokens, one te_undo leaves the token sequence that preceded the edit.
C2_UndoOfReplace ==
    (scn.cls = "sr" /\ scn.phase = "undo" /\ scn.i = 1) =>
        Contents(te) = scn.snaps[1]

\* C3. After a successful te_set_token or te_replace_tokens, te_undo followed
\* by te_redo leaves the token sequence that followed the edit.
C3_RedoOfReplace ==
    (scn.cls = "sr" /\ scn.phase = "redo" /\ scn.i = 0) =>
        Contents(te) = scn.final

(* ------------------------------------------------------------------ *)
(* C4: one entry per recorded edit                                      *)
(* ------------------------------------------------------------------ *)

\* The call appended one entry (before the trim to the limit) and left the
\* redo stack empty.
AppendedOne ==
    /\ te'.redo_stack = <<>>
    /\ te'.history # <<>>
    /\ Len(te'.history) = Min(Len(te.history) + 1,
                              IF te.history_limit > 0 THEN te.history_limit
                              ELSE Len(te.history) + 1)
    /\ SubSeq(te'.history, 1, Len(te'.history) - 1) =
          LastK(te.history, Len(te'.history) - 1)

\* C4. Every successful te_set_token, te_insert_tokens, te_delete_tokens,
\* te_replace_tokens or te_clear made with recording enabled, other than an
\* insert of no tokens or a delete of an empty range, appends exactly one
\* entry to the history and leaves the redo stack empty; a te_replace_tokens
\* over an empty range (a pure insertion) is one of them.
C4_OneEntryPerEdit ==
    [][~te.suppress_history /\ ret' = "TE_OK" =>
          /\ (\E pos \in AcctRange, token \in Token : SetToken(pos, token))
                => AppendedOne
          /\ (\E pos \in AcctRange, tokens \in AcctPayloads \ {<<>>} :
                 InsertTokens(pos, tokens)) => AppendedOne
          /\ (\E start \in AcctRange, end \in AcctRange :
                 NonEmptyRange(te, start, end) /\ DeleteTokens(start, end))
                => AppendedOne
          /\ (\E start \in AcctRange, end \in AcctRange,
                 tokens \in AcctPayloads \ {<<>>} :
                 ReplaceTokens(start, end, tokens)) => AppendedOne
          /\ (te.n_tokens > 0 /\ Clear) => AppendedOne]_vars

(* ------------------------------------------------------------------ *)
(* C5: the accounting of the two stacks                                 *)
(* ------------------------------------------------------------------ *)

UndoAccounting ==
    IF te.history # <<>>
    THEN /\ ret' = "TE_OK"
         /\ te'.history = SubSeq(te.history, 1, Len(te.history) - 1)
         /\ te'.redo_stack = <<te.history[Len(te.history)]>> \o te.redo_stack
         /\ te'.suppress_history = te.suppress_history
    ELSE ret' = "TE_OK" /\ te' = te

RedoAccounting ==
    IF te.redo_stack # <<>>
    THEN /\ ret' = "TE_OK"
         /\ te'.redo_stack = Tail(te.redo_stack)
         /\ te'.history = Append(te.history, Head(te.redo_stack))
         /\ te'.suppress_history = te.suppress_history
    ELSE ret' = "TE_OK" /\ te' = te

\* C5. te_undo with a non-empty history moves exactly the newest history
\* entry onto the redo stack (|history| - 1, |redo| + 1) and te_redo with a
\* non-empty redo stack moves exactly its top entry back (|redo| - 1,
\* |history| + 1); both return Ok, leave suppress_history as it was, and the
\* mutator they replay neither appends an entry nor clears the redo stack.
\* On an empty stack either returns Ok and changes nothing.
C5_StackAccounting ==
    [][(Undo => UndoAccounting) /\ (Redo => RedoAccounting)]_vars

\* An entry recorded by te_replace_tokens sits on the redo stack after an
\* undo, above an entry that was redone.
C5_Witness ==
    /\ Len(te.redo_stack) = 1
    /\ Len(te.history) = 1
    /\ te.redo_stack[1].type = "TE_OP_REPLACE"
    /\ te.history[1].type = "TE_OP_DELETE"
    /\ ~te.suppress_history

(* ------------------------------------------------------------------ *)
(* C6: the history limit                                                *)
(* ------------------------------------------------------------------ *)

\* C6. Whenever history_limit is positive the history holds at most
\* history_limit entries, after any interleaving of mutators, te_undo,
\* te_redo and te_set_history_limit, a lowered limit included.
C6_HistoryWithinLimit ==
    te.history_limit > 0 => te_get_history_count(te) <= te.history_limit

(* ------------------------------------------------------------------ *)
(* C7: coherence of the attention cache                                 *)
(* ------------------------------------------------------------------ *)

\* C7. Whenever kv_cache_dirty is false the attention cache holds exactly
\* tokens[0..n_tokens) at the positions 0..n_tokens-1.
C7_CleanMeansCoherent ==
    ~te.kv_cache_dirty => kv = KvOf(Contents(te))

(* ------------------------------------------------------------------ *)
(* C8: the read-only editor                                             *)
(* ------------------------------------------------------------------ *)

\* A call of one of the operations that are not const.
NonConstCall ==
    \/ \E pos \in AcctRange, token \in Token : SetToken(pos, token)
    \/ \E pos \in AcctRange, tokens \in OneToken : InsertTokens(pos, tokens)
    \/ \E start \in AcctRange, end \in AcctRange : DeleteTokens(start, end)
    \/ \E start \in AcctRange, end \in AcctRange, tokens \in OneToken :
          ReplaceTokens(start, end, tokens)
    \/ Clear
    \/ Undo
    \/ Redo
    \/ RestoreSnapshot
    \/ \E count \in AcctRange, data \in OneToken : ImportBinary(count, data)

\* C8. On an editor marked read-only every operation that is not const
\* fails with TE_ERROR_READONLY and leaves the token buffer, the history,
\* the redo stack, kv_cache_dirty and logits_valid unchanged.
C8_ReadonlyRefuses ==
    [][(te.readonly /\ NonConstCall) =>
          /\ ret' = "TE_ERROR_READONLY"
          /\ Contents(te') = Contents(te)
          /\ te'.history = te.history
          /\ te'.redo_stack = te.redo_stack
          /\ te'.kv_cache_dirty = te.kv_cache_dirty
          /\ te'.logits_valid = te.logits_valid]_vars

(* ------------------------------------------------------------------ *)
(* C9: te_insert_tokens                                                 *)
(* ------------------------------------------------------------------ *)

\* What te_insert_tokens(pos, tokens) owes on an editor that is not
\* read-only.
InsertContract(pos, tokens) ==
    LET old == Contents(te)
    IN IF pos < 0 \/ pos > te.n_tokens
       THEN ret' = "TE_ERROR_INVALID_POSITION" /\ te' = te
       ELSE IF tokens = <<>>
       THEN ret' = "TE_OK" /\ te' = te
       ELSE /\ ret' = "TE_OK"
            /\ Contents(te') =
                  SubSeq(old, 1, pos) \o tokens \o SubSeq(old, pos + 1, te.n_tokens)
            /\ te'.n_tokens = te.n_tokens + Len(tokens)

C10_DeleteTokens ==
    [][\A start \in LogPositions, end \in LogPositions :
          DeleteTokens(start, end) =>
             LET old == Contents(te)
                 lo == Max(start, 0)
                 hi == Min(end, te.n_tokens)
             IN /\ ret' = "TE_OK"
                /\ IF lo < hi
                   THEN Contents(te') =
                           SubSeq(old, 1, lo) \o SubSeq(old, hi + 1, te.n_tokens)
                   ELSE /\ Contents(te') = old
                        /\ te'.history = te.history
                        /\ te'.kv_cache_dirty = te.kv_cache_dirty]_vars

(* ------------------------------------------------------------------ *)
(* C11: te_replace_tokens against delete followed by insert             *)
(* ------------------------------------------------------------------ *)

\* C11. For every range and payload te_replace_tokens(range, toks) leaves
\* the token sequence and the n_tokens that te_delete_tokens(range) followed
\* by te_insert_tokens(max(range.start, 0), toks) leave on a copy of the
\* editor, and n_tokens does not exceed capacity afterwards; empty ranges,
\* range.start > range.end and range.start > n_tokens included.
C11_ReplaceIsDeleteInsert ==
    [][\A start \in AcctRange, end \in AcctRange, tokens \in AcctPayloads :
          ReplaceTokens(start, end, tokens) =>
             LET deleted == te_delete_tokens(te, te_range_t(start, end)).ctx
                 inserted == te_insert_tokens(deleted, Max(start, 0), tokens).ctx
             IN /\ Contents(te') = Contents(inserted)
                /\ te'.n_tokens = inserted.n_tokens
                /\ te'.n_tokens <= te'.capacity]_vars

(* ------------------------------------------------------------------ *)
(* C12: snapshots                                                       *)
(* ------------------------------------------------------------------ *)

ExportContract(buf_size) ==
    LET needed == 4 + 4 * te.n_tokens
    IN /\ te' = te
       /\ IF buf_size >= needed
          THEN /\ ret' = "TE_OK"
               /\ wire'.size = needed
               /\ Len(wire'.bytes) = needed
               /\ CountOfBytes(SubSeq(wire'.bytes, 1, 4)) = te.n_tokens
               /\ \A i \in 1..te.n_tokens :
                     TokenOfBytes(SubSeq(wire'.bytes, 4 * i + 1, 4 * i + 4)) = te.tokens[i]
          ELSE ret' = "TE_ERROR_BUFFER_TOO_SMALL"

\* What te_import_binary owes for the first len bytes of an exported
\* buffer.
ImportContract(len) ==
    IF len >= 4 /\ len = Len(wire.bytes)
    THEN /\ ret' = "TE_OK"
         /\ Contents(te') = wire.src
         /\ te'.n_tokens = Len(wire.src)
         /\ te'.kv_cache_dirty
    ELSE /\ ret' = "TE_ERROR_BUFFER_TOO_SMALL"
         /\ Contents(te') = Contents(te)
         /\ te'.history = te.history

\* C13. te_export_binary of a buffer of N tokens produces exactly 4 + 4*N
\* bytes, the count N and then the N tokens in order; te_import_binary of
\* those bytes into any editor leaves exactly that token sequence with
\* kv_cache_dirty set; an export into a smaller buffer and an import from
\* fewer than 4 + 4*count bytes return TE_ERROR_BUFFER_TOO_SMALL and leave
\* the tokens and the history of the editor unchanged.
C13_BinaryRoundTrip ==
    [][/\ \A buf_size \in WireSizes : ExportBinary(buf_size) => ExportContract(buf_size)
       /\ \A len \in 0..Len(wire.bytes) : ImportBytes(len) => ImportContract(len)]_vars

\* An exported buffer was imported into an editor that held other tokens.
C13_Witness ==
    /\ wire.src # <<>>
    /\ wire.src[1] = -1
    /\ Contents(te) = wire.src
    /\ te.history # <<>>
    /\ te.history[Len(te.history)].type = "TE_OP_DELETE"
    /\ te.history[Len(te.history)].tokens # wire.src

(* ------------------------------------------------------------------ *)
(* Calls of the client on the environment                               *)
(* ------------------------------------------------------------------ *)

\* The state the environment calls leave alone.
outside == <<te, kv, snapshot, ret, wire, gen, mail, race, call, token_info>>

\* The environment has an id left to hand out.
IdsLeft == env.next_ctx_id < MaxIds

CreateRoot(llama_ok) ==
    /\ IdsLeft
    /\ env' = rllm_create_root(env, llama_ok)
    /\ UNCHANGED outside

SpawnChild(parent, share_mode, llama_ok) ==
    /\ IdsLeft
    /\ parent \in Live(env)
    /\ env' = rllm_spawn_child(env, parent, share_mode, llama_ok)
    /\ UNCHANGED outside

Fork(source, llama_ok) ==
    /\ IdsLeft
    /\ source \in Live(env)
    /\ env' = rllm_fork(env, source, llama_ok)
    /\ UNCHANGED outside

CreatePeer(peer, llama_ok) ==
    /\ IdsLeft
    /\ peer \in Live(env)
    /\ env' = rllm_create_peer(env, peer, llama_ok)
    /\ UNCHANGED outside

Destroy(ctx) ==
    /\ ctx \in Live(env)
    /\ env' = rllm_destroy(env, ctx)
    /\ UNCHANGED outside

AppendPrompt(ctx, tokens) ==
    /\ ctx \in Live(env)
    /\ env.nodes[ctx].token_editor.n_tokens + Len(tokens) <= EnvLen
    /\ env' = rllm_append_prompt(env, ctx, tokens)
    /\ UNCHANGED outside

Ids == 0..(MaxIds - 1)

\* The tree of contexts under every creator, destroy and prompt edits.
NextEnv ==
    \/ \E llama_ok \in BOOLEAN : CreateRoot(llama_ok) /\ UNCHANGED scn
    \/ \E parent \in Ids, share_mode \in ShareModes, llama_ok \in BOOLEAN :
          SpawnChild(parent, share_mode, llama_ok) /\ UNCHANGED scn
    \/ \E source \in Ids, llama_ok \in BOOLEAN : Fork(source, llama_ok) /\ UNCHANGED scn
    \/ \E peer \in Ids, llama_ok \in BOOLEAN : CreatePeer(peer, llama_ok) /\ UNCHANGED scn
    \/ \E ctx \in Ids : Destroy(ctx) /\ UNCHANGED scn
    \/ \E ctx \in Ids, tokens \in OneToken : AppendPrompt(ctx, tokens) /\ UNCHANGED scn

SpecEnv == InitEnv /\ [][NextEnv]_vars

(* ------------------------------------------------------------------ *)
(* Calls of rllm_complete                                               *)
(* ------------------------------------------------------------------ *)

CompletionParams == [n_predict : 0..MaxPredict, timeout_ms : {0, 1}]

\* The client calls rllm_complete while no call is running.
Complete(params, decode_ok, sampling_ok) ==
    LET r == rllm_complete_enter(gen, te, kv, params, decode_ok, sampling_ok)
    IN /\ gen.at = "call"
       /\ gen' = r.gen
       /\ te' = r.te
       /\ kv' = r.kv
       /\ UNCHANGED <<snapshot, ret, wire, env, mail, race, call, token_info>>

\* The running call goes through its loop test and one iteration.
CompleteIteration(timed_out, malloc_ok, next_token, decode_ok) ==
    LET r == rllm_complete_iteration(gen, te, kv, timed_out, malloc_ok,
                                     next_token, decode_ok)
    IN /\ gen.at = "loop"
       /\ gen' = r.gen
       /\ te' = r.te
       /\ kv' = r.kv
       /\ UNCHANGED <<snapshot, ret, wire, env, mail, race, call, token_info>>

\* The on_token callback of the running call calls rllm_complete on the
\* same context.
CompleteWhileRunning(params, decode_ok, sampling_ok) ==
    LET r == rllm_complete_enter(gen, te, kv, params, decode_ok, sampling_ok)
    IN /\ gen.at = "loop"
       /\ gen' = r.gen
       /\ te' = r.te
       /\ kv' = r.kv
       /\ UNCHANGED <<snapshot, ret, wire, env, mail, race, call, token_info>>

Sampled == Token \cup {TokenEog}

\* Prompts, cache invalidation and completions on one context.
NextComplete ==
    \/ \E tokens \in OneToken :
          /\ gen.at = "call"
          /\ InsertTokens(te.n_tokens, tokens)
          /\ Within(MaxLen, MaxHistory)
          /\ UNCHANGED scn
    \/ \E params \in CompletionParams, decode_ok \in BOOLEAN, sampling_ok \in BOOLEAN :
          /\ Complete(params, decode_ok, sampling_ok)
          /\ UNCHANGED scn
    \/ \E timed_out \in BOOLEAN, malloc_ok \in BOOLEAN, next_token \in Sampled,
          decode_ok \in BOOLEAN :
          /\ CompleteIteration(timed_out, malloc_ok, next_token, decode_ok)
          /\ Within(MaxLen, MaxHistory)
          /\ UNCHANGED scn
    \/ \E params \in CompletionParams, decode_ok \in BOOLEAN, sampling_ok \in BOOLEAN :
          /\ CompleteWhileRunning(params, decode_ok, sampling_ok)
          /\ UNCHANGED scn

SpecComplete == InitComplete /\ [][NextComplete]_vars

(* ------------------------------------------------------------------ *)
(* Calls on the mailbox                                                 *)
(* ------------------------------------------------------------------ *)

\* The state the mailbox calls leave alone.
nomail == <<te, kv, snapshot, ret, wire, env, gen, race, call, token_info>>

\* The mailbox can be called: the context is allocated and the heap intact.
Usable == mail.alive /\ ~mail.undefined

\* What malloc can return: a block that is not allocated, or null.
Mallocs == {NULLPTR} \cup {p \in Blocks : ~mail.heap[p].live}

SendMessage(from, msg, bytes, block) ==
    /\ Usable
    /\ block \in Mallocs
    /\ mail' = rllm_send_message(mail, from, msg, bytes, block)
    /\ UNCHANGED nomail

RecvMessage(timeout_ms) ==
    /\ Usable
    /\ mail.rx.at = "call"
    /\ mail' = rllm_recv_message_enter(mail, timeout_ms)
    /\ UNCHANGED nomail

RecvPoll ==
    /\ Usable
    /\ mail.rx.at = "wait"
    /\ mail' = rllm_recv_message_poll(mail)
    /\ UNCHANGED nomail

FreeMessage ==
    /\ ~mail.undefined
    /\ mail.rx.at = "call"
    /\ mail.out.data # NULLPTR
    /\ mail' = rllm_free_message(mail)
    /\ UNCHANGED nomail

\* rllm_destroy of the receiving context, or rllm_shutdown.
DestroyReceiver ==
    /\ Usable
    /\ mail.rx.at = "call"
    /\ mail' = FreeMailbox(mail)
    /\ UNCHANGED nomail

\* The calls of the senders: context 1 sends a text of one byte, or an
\* empty text (a data pointer with data_size 0), context 2 a control
\* message without data.
Sends ==
    {<<1, Message("RLLM_MSG_TEXT", CallerData, 1)>>,
     <<1, Message("RLLM_MSG_TEXT", CallerData, 0)>>,
     <<2, Message("RLLM_MSG_CONTROL", NULLPTR, 0)>>}

\* What the buffer of a sender holds.
DataBytes == <<5>>

\* Senders and the receiving thread on one mailbox; a send is one step and
\* the receiver waits without timeout.
NextMail ==
    \/ \E send \in Sends, block \in Blocks \cup {NULLPTR} :
          SendMessage(send[1], send[2], DataBytes, block) /\ UNCHANGED scn
    \/ RecvMessage(0) /\ UNCHANGED scn
    \/ RecvPoll /\ UNCHANGED scn
    \/ FreeMessage /\ UNCHANGED scn
    \/ DestroyReceiver /\ UNCHANGED scn

SpecMail == Init /\ [][NextMail]_vars

\* The sends that allocate nothing.
PlainSends == {send \in Sends : send[2].data_size = 0}

\* Senders and a receiver that waits with and without timeout. The
\* receiving thread keeps running: its loop goes on to its next test.
NextMailWait ==
    \/ \E send \in PlainSends :
          SendMessage(send[1], send[2], DataBytes, NULLPTR) /\ UNCHANGED scn
    \/ \E timeout_ms \in 0..MaxTimeout : RecvMessage(timeout_ms) /\ UNCHANGED scn
    \/ RecvPoll /\ UNCHANGED scn

SpecMailWait == Init /\ [][NextMailWait]_vars /\ WF_vars(RecvPoll /\ UNCHANGED scn)

\* The log of sent messages is followed up to queue_capacity entries.
SendTest(t, msg) ==
    /\ Usable
    /\ mail.tx[t].at = "call"
    /\ Len(mail.pending) < queue_capacity
    /\ mail' = rllm_send_message_test(mail, t, msg)
    /\ UNCHANGED nomail

SendStore(t) ==
    /\ mail.tx[t].at = "write"
    /\ mail' = rllm_send_message_store(mail, t)
    /\ UNCHANGED nomail

SendPublish(t) ==
    /\ mail.tx[t].at = "publish"
    /\ mail' = rllm_send_message_publish(mail, t)
    /\ UNCHANGED nomail

\* Two threads sending to one receiver, their accesses to the ring
\* interleaved, and the receiving thread.
NextMailRace ==
    \/ \E send \in PlainSends : SendTest(send[1], send[2]) /\ UNCHANGED scn
    \/ \E t \in SenderThreads : SendStore(t) /\ UNCHANGED scn
    \/ \E t \in SenderThreads : SendPublish(t) /\ UNCHANGED scn
    \/ RecvMessage(0) /\ UNCHANGED scn
    \/ RecvPoll /\ UNCHANGED scn

SpecMailRace == Init /\ [][NextMailRace]_vars

(* ------------------------------------------------------------------ *)
(* Creators on two threads                                              *)
(* ------------------------------------------------------------------ *)

\* The state the racing creators leave alone.
norace == <<te, kv, snapshot, ret, wire, env, gen, mail, call, token_info>>

AllocTest(t) ==
    /\ race.thr[t].at = "call"
    /\ race.thr[t].nth < MaxIds
    /\ race' = rllm_alloc_context_test(race, t)
    /\ UNCHANGED norace

AllocTake(t) ==
    /\ race.thr[t].at = "take"
    /\ race' = rllm_alloc_context_take(race, t)
    /\ UNCHANGED norace

AllocBump(t) ==
    /\ race.thr[t].at = "bump"
    /\ race' = rllm_alloc_context_bump(race, t)
    /\ UNCHANGED norace

AllocCount(t) ==
    /\ race.thr[t].at = "count"
    /\ race' = rllm_alloc_context_count(race, t)
    /\ UNCHANGED norace

AllocAppend(t) ==
    /\ race.thr[t].at = "append"
    /\ race' = rllm_alloc_context_append(race, t)
    /\ UNCHANGED norace

\* Two threads in rllm_create_root, rllm_spawn_child or rllm_create_peer,
\* their accesses to the pool interleaved.
NextRace ==
    \/ \E t \in CreatorThreads : AllocTest(t) /\ UNCHANGED scn
    \/ \E t \in CreatorThreads : AllocTake(t) /\ UNCHANGED scn
    \/ \E t \in CreatorThreads : AllocBump(t) /\ UNCHANGED scn
    \/ \E t \in CreatorThreads : AllocCount(t) /\ UNCHANGED scn
    \/ \E t \in CreatorThreads : AllocAppend(t) /\ UNCHANGED scn

SpecRace == Init /\ [][NextRace]_vars

(* ------------------------------------------------------------------ *)
(* Claims on the environment                                            *)
(* ------------------------------------------------------------------ *)

\* The pool is full: rllm_alloc_context refuses.
PoolFull(e) == Len(e.contexts) >= e.config.max_contexts

\* A creator call refused: null returned, the pool as long as before, the
\* child list of the node it was given as it was, no callback fired.
Refused(e, r, given) ==
    /\ r.returned = NULLCTX
    /\ Len(r.contexts) = Len(e.contexts)
    /\ given # NULLCTX => r.nodes[given].children = e.nodes[given].children
    /\ r.fired = NoCallbacks

BoundsKept(e) ==
    /\ Len(e.contexts) <= e.config.max_contexts
    /\ \A c \in Live(e) : e.nodes[c].depth < e.config.max_depth

RefusalsKept(e) ==
    /\ \A parent \in Live(e), share_mode \in ShareModes, llama_ok \in BOOLEAN :
          (e.nodes[parent].depth + 1 >= e.config.max_depth \/ PoolFull(e))
             => Refused(e, rllm_spawn_child(e, parent, share_mode, llama_ok), parent)
    /\ \A llama_ok \in BOOLEAN :
          PoolFull(e) => Refused(e, rllm_create_root(e, llama_ok), NULLCTX)
    /\ \A c \in Live(e), llama_ok \in BOOLEAN :
          PoolFull(e) => /\ Refused(e, rllm_fork(e, c, llama_ok), e.nodes[c].parent)
                         /\ Refused(e, rllm_create_peer(e, c, llama_ok), e.nodes[c].parent)

\* C14: in every state the environment reaches the pool holds at most
\* max_contexts nodes and every node has depth < max_depth; a spawn_child
\* under a parent with depth + 1 >= max_depth, and every creation with a
\* full pool, returns null, leaves the pool size and the parent's child
\* list as they were and fires no callback.
C14_PoolAndDepthBounds ==
    [][BoundsKept(env') /\ RefusalsKept(env')]_vars

\* The entries of the pool, as a set.
Pool(e) == {e.contexts[i] : i \in 1..Len(e.contexts)}

\* What rllm_destroy(e, ctx) is to leave behind.
DestroyContract(e, ctx) ==
    LET r == rllm_destroy(e, ctx)
        gone == Subtree(e, ctx)
        parent == e.nodes[ctx].parent
    IN /\ Pool(r) = Live(r)
       /\ Len(r.contexts) = Len(e.contexts) - Cardinality(gone)
       /\ parent # NULLCTX =>
             \A i \in 1..Len(r.nodes[parent].children) :
                r.nodes[parent].children[i] # ctx
       /\ \A c \in gone : rllm_get_context(r, e.nodes[c].id) = {NULLCTX}

\* C15: rllm_destroy(node) takes the node and all its descendants out of
\* the pool: afterwards the pool holds exactly the live nodes, it is
\* shorter by 1 + the number of descendants, the node is no longer in its
\* parent's child list and rllm_get_context finds none of the destroyed ids.
C15_DestroyRemovesSubtree ==
    \A ctx \in Live(env) : Pool(env) = Live(env) => DestroyContract(env, ctx)

\* The entries of the roots list from which walking the child lists
\* arrives at node c.
RootsReaching(e, c) ==
    {i \in 1..Len(e.roots) : c \in Subtree(e, e.roots[i])}

\* C16: after any sequence of create_root, spawn_child, fork, create_peer
\* and destroy, every live node of the pool is reached by walking child
\* lists from exactly one entry of the roots list, a peer of a root and a
\* root past the capacity of the list included.
C16_OneRootReachesEveryNode ==
    \A c \in Pool(env) \cap Live(env) : Cardinality(RootsReaching(env, c)) = 1

\* The token sequence of the editor of node c.
Buffer(e, c) == Contents(e.nodes[c].token_editor)

\* What a successful rllm_spawn_child leaves in the child's editor.
SpawnShares(e) ==
    \A parent \in Live(e), share_mode \in ShareModes :
       LET r == rllm_spawn_child(e, parent, share_mode, TRUE)
       IN r.returned # NULLCTX =>
             /\ share_mode \in {"RLLM_SHARE_TOKENS_READ", "RLLM_SHARE_TOKENS_COPY",
                                "RLLM_SHARE_FULL"}
                   => Buffer(r, r.returned) = Buffer(e, parent)
             /\ share_mode = "RLLM_SHARE_NONE" => Buffer(r, r.returned) = <<>>

\* An edit of one node's editor leaves the buffer of every other node alone.
EditsStayLocal ==
    \A ctx \in Live(env), tokens \in OneToken :
       env' = rllm_append_prompt(env, ctx, tokens) =>
          \A c \in Live(env) \ {ctx} : Buffer(env', c) = Buffer(env, c)

\* C17: spawn_child with share_mode Tokens_Read, Tokens_Copy or Full leaves
\* the child's token buffer equal to the parent's token sequence at spawn
\* time, with share_mode None it leaves the buffer empty, and a later edit
\* of the parent's editor does not change the child's buffer, nor the
\* reverse.
C17_SpawnSharesTokens ==
    [][SpawnShares(env) /\ EditsStayLocal]_vars

\* What rllm_fork(e, source) is to return.
ForkContract(e, source) ==
    LET r == rllm_fork(e, source, TRUE)
    IN IF e.nodes[source].parent = NULLCTX
       THEN r.returned = NULLCTX /\ r.contexts = e.contexts
       ELSE r.returned # NULLCTX =>
               /\ r.nodes[r.returned].relation = "RLLM_REL_FORK"
               /\ r.nodes[r.returned].parent = e.nodes[source].parent
               /\ r.nodes[r.returned].depth = e.nodes[source].depth
               /\ Buffer(r, r.returned) = Buffer(e, source)

\* C18: rllm_fork(source) of a source with a parent returns a node of
\* relation Fork with the parent and the depth of source and with a token
\* buffer equal to the source's token sequence; of a root it returns null
\* and leaves the pool as it was.
C18_ForkCopiesSource ==
    \A source \in Live(env) : ForkContract(env, source)

(* ------------------------------------------------------------------ *)
(* Claims on rllm_complete                                              *)
(* ------------------------------------------------------------------ *)

\* The fields of the context and the position of its running call.
ContextOf(g) ==
    <<g.state, g.tokens_generated, g.on_complete, g.at, g.i, g.n_predict,
      g.timeout_ms, g.completed>>

\* Any rllm_complete on a Running context returns Context_Busy and changes
\* neither the context nor its editor nor its cache.
BusyRefused ==
    gen.state = "RLLM_STATE_RUNNING" =>
       \A params \in CompletionParams, decode_ok \in BOOLEAN, sampling_ok \in BOOLEAN :
          LET r == rllm_complete_enter(gen, te, kv, params, decode_ok, sampling_ok)
          IN /\ r.gen.returned = "RLLM_ERROR_CONTEXT_BUSY"
             /\ ContextOf(r.gen) = ContextOf(gen)
             /\ r.te = te
             /\ r.kv = kv

\* The state of a context whose call has returned, against the code returned.
ReturnedRight(g) ==
    g.at = "call" /\ g.returned # "none" =>
       /\ g.state # "RLLM_STATE_RUNNING"
       /\ g.returned \in {"RLLM_OK", "RLLM_ERROR_TIMEOUT", "RLLM_ERROR_MODEL",
                          "RLLM_ERROR_MEMORY"}
       /\ g.state = "RLLM_STATE_COMPLETE" <=> g.returned = "RLLM_OK"
       /\ g.returned = "RLLM_OK" => g.completed = IF g.on_complete THEN 1 ELSE 0
       /\ g.returned # "RLLM_OK" => g.state = "RLLM_STATE_ERROR" /\ g.completed = 0

\* C19: rllm_complete on a Running context returns Context_Busy and changes
\* nothing; otherwise the state is Running while the call runs and never
\* when it has returned: it is Complete exactly when the call returned Ok,
\* with on_complete fired exactly once (when the callback is set), and
\* Error, with on_complete not fired, when it returned Timeout, Model or
\* Memory.
C19_CompleteLeavesRunning ==
    [][/\ BusyRefused
       /\ gen'.at = "loop" => gen'.state = "RLLM_STATE_RUNNING"
       /\ ReturnedRight(gen')]_vars

\* A call that generated MaxPredict tokens has returned Ok on a context with
\* an on_complete callback.
C19_Witness ==
    /\ gen.at = "call"
    /\ gen.returned = "RLLM_OK"
    /\ gen.state = "RLLM_STATE_COMPLETE"
    /\ gen.on_complete
    /\ gen.completed = 1
    /\ gen.tokens_generated = MaxPredict

\* C20: a step of rllm_complete in which an adapter decode failed, in the
\* initial cache sync or after a sampled token, ends the call: state is
\* Error, Model is returned and no further token is sampled.
C20_DecodeFailureEndsCall ==
    [][gen' # gen /\ gen'.decoded = "failed" =>
          /\ gen'.state = "RLLM_STATE_ERROR"
          /\ gen'.returned = "RLLM_ERROR_MODEL"
          /\ gen'.at = "call"]_vars

(* ------------------------------------------------------------------ *)
(* Claims on the mailbox                                                *)
(* ------------------------------------------------------------------ *)

\* The step is a rllm_recv_message returning Ok.
Receives == mail.rx.at = "wait" /\ mail'.rx.at = "call" /\ mail'.received = "RLLM_OK"

\* The message in out is the one sent as h: sender, type and a copy of the
\* data in a block of its own.
Carries(m, h) ==
    /\ m.out.sender = h.sender
    /\ m.out.type = h.type
    /\ m.out.data_size = Len(h.bytes)
    /\ Len(h.bytes) > 0 =>
          /\ m.out.data \in Blocks
          /\ m.heap[m.out.data].live
          /\ m.heap[m.out.data].bytes = h.bytes

\* A send to a full ring returns Memory and leaves the ring as it is.
FullRefused(m) ==
    (m.queue_tail + 1) % queue_capacity = m.queue_head =>
       \A send \in Sends, block \in Blocks \cup {NULLPTR} :
          LET r == rllm_send_message(m, send[1], send[2], DataBytes, block)
          IN /\ r.sent = "RLLM_ERROR_MEMORY"
             /\ r.queue_head = m.queue_head
             /\ r.queue_tail = m.queue_tail
             /\ r.message_queue = m.message_queue

\* C21: rllm_recv_message returns the messages in the order in which their
\* sends returned Ok, each with the sender's id, the sent type and a copy of
\* the sent data; a send to a full ring returns Memory and leaves head, tail
\* and the queued messages unchanged; has_messages holds exactly while a
\* sent message has not been received; head and tail stay in [0, capacity).
C21_MailboxFifo ==
    [][/\ Receives => Carries(mail', Head(mail.pending))
       /\ FullRefused(mail')
       /\ rllm_has_messages(mail') <=> mail'.pending # <<>>
       /\ mail'.queue_head \in 0..(queue_capacity - 1)
       /\ mail'.queue_tail \in 0..(queue_capacity - 1)]_vars

\* The ring holds no pointer to the data of the message in out.
Released(m) ==
    m.out.data # NULLPTR =>
       \A i \in 0..(queue_capacity - 1) : m.message_queue[i].data # m.out.data

\* The step frees the mailbox (rllm_destroy or rllm_shutdown).
Destroys == mail.alive /\ ~mail'.alive

\* C22: rllm_recv_message hands the data of the message over to the caller:
\* after it the ring holds no reference to that data, and freeing the
\* mailbox frees only the data of messages still queued, never a block the
\* caller owns or has already released.
C22_RecvTransfersOwnership ==
    [][/\ Receives => Released(mail')
       /\ Destroys =>
             /\ ~mail'.undefined
             /\ \A p \in Blocks :
                   mail.heap[p].live /\ mail.heap[p].owner = "caller"
                      => mail'.heap[p].live]_vars

\* A rllm_recv_message is in its wait loop.
Waiting == mail.rx.at = "wait"

\* The step is the return of a rllm_recv_message.
Returns == mail.rx.at = "wait" /\ mail'.rx.at = "call"

\* The ring and the caller's message are as before the step.
MailboxUntouched ==
    /\ mail'.message_queue = mail.message_queue
    /\ mail'.queue_head = mail.queue_head
    /\ mail'.queue_tail = mail.queue_tail
    /\ mail'.out = mail.out

\* A return is Ok with the message at head when there is one, and else a
\* Timeout of a call with timeout_ms > 0 that leaves the mailbox as it is.
ReturnsRight ==
    Returns =>
       IF rllm_has_messages(mail)
       THEN /\ mail'.received = "RLLM_OK"
            /\ mail'.out = mail.message_queue[mail.queue_head]
       ELSE /\ mail'.received = "RLLM_ERROR_TIMEOUT"
            /\ mail.rx.timeout_ms > 0
            /\ MailboxUntouched

\* C23: a rllm_recv_message on an empty mailbox with timeout_ms > 0
\* eventually returns, with Timeout and the mailbox unchanged if no message
\* has arrived; with timeout_ms = 0 it does not return while the mailbox is
\* empty, and it returns Ok with the message once a send has succeeded.
C23_RecvWaits ==
    /\ [][ReturnsRight]_vars
    /\ (Waiting /\ mail.rx.timeout_ms > 0) ~> ~Waiting
    /\ (Waiting /\ rllm_has_messages(mail))
          ~> (~Waiting /\ mail.received = "RLLM_OK")

\* A call with timeout_ms > 0 has returned Timeout on an empty mailbox.
C23_Witness ==
    /\ mail.rx.at = "call"
    /\ mail.received = "RLLM_ERROR_TIMEOUT"
    /\ mail.rx.timeout_ms > 0
    /\ mail.rx.elapsed > mail.rx.timeout_ms
    /\ ~rllm_has_messages(mail)

\* The messages in the ring from head to tail, oldest first.
Queued(m) ==
    [i \in 1..((m.queue_tail - m.queue_head + queue_capacity) % queue_capacity) |->
        m.message_queue[(m.queue_head + i - 1) % queue_capacity]]

\* The senders and types of the messages of a sequence that come from t.
From(seq, t) ==
    LET mine == SelectSeq(seq, LAMBDA x : x.sender = t)
    IN [i \in 1..Len(mine) |-> mine[i].type]

\* C24: when sends of two threads to one receiver have both returned Ok,
\* both messages are in the ring for rllm_recv_message to return: tail is
\* ahead of head by the number of messages sent and not yet received, and
\* the messages of each sender are queued in that sender's send order.
C24_ConcurrentSendsKept ==
    (\A t \in SenderThreads : mail.tx[t].at = "call") =>
       /\ Len(Queued(mail)) = Len(mail.pending)
       /\ \A t \in SenderThreads : From(Queued(mail), t) = From(mail.pending, t)

(* ------------------------------------------------------------------ *)
(* Claims on concurrent creation                                        *)
(* ------------------------------------------------------------------ *)

\* The entries of the pool, contexts[0 .. n_contexts).
PoolEntries(r) == [i \in 1..r.n_contexts |-> r.contexts[i - 1]]

\* C25: creators running on different threads never yield two live nodes
\* with the same id, a lost or duplicated pool entry, or a pool of more
\* than max_contexts entries.
C25_CreatorsSerialized ==
    (\A t \in CreatorThreads : race.thr[t].at = "call") =>
       /\ \A c, d \in race.made : c.id = d.id => c = d
       /\ race.n_contexts = Cardinality(race.made)
       /\ \A c \in race.made :
             Cardinality({i \in 1..race.n_contexts : PoolEntries(race)[i] = c}) = 1
       /\ race.n_contexts <= MaxContexts

(* ------------------------------------------------------------------ *)
(* Calls on a null handle                                               *)
(* ------------------------------------------------------------------ *)

\* The editor operations, by what they return.
te_error_operations ==
    {"te_get_token_info", "te_get_tokens", "te_tokenize", "te_detokenize",
     "te_set_token", "te_insert_tokens", "te_delete_tokens", "te_replace_tokens",
     "te_replace_text", "te_clear", "te_undo", "te_redo", "te_delete_sequence",
     "te_copy_sequence", "te_sync_kv_cache", "te_invalidate_kv_range",
     "te_clear_kv_cache", "te_shift_kv_cache", "te_restore_snapshot",
     "te_compute_logits", "te_get_top_k", "te_find_token", "te_find_text",
     "te_export_json", "te_export_binary", "te_import_binary"}

te_value_operations ==
    {"te_get_token", "te_token_to_string", "te_create_sequence", "te_fork_sequence"}

te_count_operations == {"te_get_token_count", "te_get_history_count"}

te_pointer_operations == {"te_init", "te_create_snapshot"}

te_void_operations ==
    {"te_free", "te_set_history_limit", "te_clear_history", "te_free_snapshot"}

te_operations ==
    te_error_operations \cup te_value_operations \cup te_count_operations
       \cup te_pointer_operations \cup te_void_operations \cup {"te_get_token_logit"}

\* te_get_token_count(NULL) returning the failure value of te_get_token.
te_on_null_count_as_value(op) ==
    CASE op \in te_error_operations -> "TE_ERROR_INVALID_CONTEXT"
      [] op \in te_value_operations \cup te_count_operations -> "-1"
      [] op \in te_pointer_operations -> "NULL"
      [] op \in te_void_operations -> "void"
      [] op = "te_get_token_logit" -> "-1.0f"

\* What the first statement of each editor operation returns when its
\* handle (the context, for te_free_snapshot and te_restore_snapshot the
\* snapshot as well, for te_init the llama context) is NULL. "void" is a
\* plain return of a function without a result. No operation reads or
\* writes anything before this test.
te_on_null(op) ==
    CASE op \in te_error_operations -> "TE_ERROR_INVALID_CONTEXT"
      [] op \in te_value_operations -> "-1"
      [] op \in te_count_operations -> "0"
      [] op \in te_pointer_operations -> "NULL"
      [] op \in te_void_operations -> "void"
      [] op = "te_get_token_logit" -> "-1.0f"

\* The environment operations, by what they return.
rllm_error_operations ==
    {"rllm_destroy", "rllm_set_prompt", "rllm_append_prompt", "rllm_get_text",
     "rllm_complete", "rllm_complete_sync", "rllm_eval_in_child", "rllm_self_eval",
     "rllm_refine", "rllm_send_message", "rllm_send_tokens", "rllm_send_text",
     "rllm_recv_message"}

rllm_pointer_operations ==
    {"rllm_init", "rllm_create_root", "rllm_spawn_child", "rllm_fork",
     "rllm_create_peer", "rllm_get_context", "rllm_get_parent",
     "rllm_get_children", "rllm_get_root", "rllm_get_token_editor",
     "rllm_find_context"}

rllm_count_operations == {"rllm_get_depth", "rllm_count_descendants"}

rllm_void_operations ==
    {"rllm_shutdown", "rllm_free_message", "rllm_get_stats", "rllm_walk_tree",
     "rllm_set_trace"}

rllm_operations ==
    rllm_error_operations \cup rllm_pointer_operations \cup rllm_count_operations
       \cup rllm_void_operations \cup {"rllm_has_messages"}

\* What each environment operation returns when its handle (the
\* environment, the context or, for rllm_init, the model) is NULL.
rllm_on_null(op) ==
    CASE op \in rllm_error_operations -> "RLLM_ERROR_INVALID_CONTEXT"
      [] op \in rllm_pointer_operations -> "NULL"
      [] op \in rllm_count_operations -> "0"
      [] op = "rllm_has_messages" -> "false"
      [] op \in rllm_void_operations -> "void"

Operations == te_operations \cup rllm_operations

\* The client calls an operation with NULL for its handle.
CallOnNull(op) ==
    /\ call' = [op |-> op,
                returned |-> IF op \in te_operations THEN te_on_null(op)
                             ELSE rllm_on_null(op)]
    /\ UNCHANGED <<te, kv, snapshot, ret, wire, env, gen, mail, race, token_info>>

\* The client calls a creator or rllm_destroy of a live environment with
\* NULL for the context.
CallOnNullContext(op) ==
    /\ env' = CASE op = "rllm_spawn_child" ->
                      rllm_spawn_child(env, NULLCTX, "RLLM_SHARE_FULL", TRUE)
                [] op = "rllm_fork" -> rllm_fork(env, NULLCTX, TRUE)
                [] op = "rllm_create_peer" -> rllm_create_peer(env, NULLCTX, TRUE)
                [] op = "rllm_destroy" -> rllm_destroy(env, NULLCTX)
    /\ call' = [op |-> op,
                returned |-> IF op = "rllm_destroy" THEN rllm_on_null(op)
                             ELSE IF env'.returned = NULLCTX THEN "NULL"
                             ELSE "context"]
    /\ UNCHANGED <<te, kv, snapshot, ret, wire, gen, mail, race, token_info>>

ContextOperations == {"rllm_spawn_child", "rllm_fork", "rllm_create_peer", "rllm_destroy"}

\* A small tree of contexts, and every operation called on a null handle.
NextNull ==
    \/ CreateRoot(TRUE) /\ UNCHANGED scn
    \/ \E parent \in Ids :
          SpawnChild(parent, "RLLM_SHARE_NONE", TRUE) /\ UNCHANGED scn
    \/ \E op \in Operations : CallOnNull(op) /\ UNCHANGED scn
    \/ \E op \in ContextOperations : CallOnNullContext(op) /\ UNCHANGED scn

SpecNull == InitEnv /\ [][NextNull]_vars

\* The value the interface designates for a call on a null handle.
Designated(op) ==
    CASE op \in te_error_operations -> "TE_ERROR_INVALID_CONTEXT"
      [] op \in rllm_error_operations -> "RLLM_ERROR_INVALID_CONTEXT"
      [] op \in {"te_get_token", "te_create_sequence", "te_fork_sequence",
                 "te_token_to_string"} -> "-1"
      [] op \in {"te_get_token_count", "te_get_history_count", "rllm_get_depth",
                 "rllm_count_descendants"} -> "0"
      [] op \in te_pointer_operations \cup rllm_pointer_operations -> "NULL"
      [] op = "rllm_has_messages" -> "false"
      [] op \in {"te_free", "te_clear_history", "te_free_snapshot",
                 "rllm_shutdown", "rllm_free_message"} -> "void"
      [] OTHER -> "unnamed"

\* The call on a null context left the live environment as it was and
\* reported nothing but the failure.
Untouched(r) == r = Entered(env)

InitHistory ==
    /\ \E limit \in 1..MaxHistory : te = te_set_history_limit(te_init, limit)
    /\ kv = {}
    /\ snapshot = <<>>
    /\ ret = "TE_OK"
    /\ scn = ScnOff
    /\ wire = [bytes |-> <<>>, size |-> 0, src |-> <<>>]
    /\ mail = Mailbox
    /\ race = SharedPool
    /\ call = NoCall
    /\ token_info = te_init_token_info
    /\ env = rllm_init(MaxDepth, MaxContexts)
    /\ gen = Allocated(TRUE)

\* The observer keeps every recorded mutator in the order of the calls:
\* its kind, its position, the tokens it has to save and the buffer it
\* found. The client makes at most MaxHistory + 1 of them, then undoes.
Mutating == scn.i = 0 /\ Len(scn.snaps) <= MaxHistory

Logged(type, start, tokens) ==
    scn' = IF ret' = "TE_OK" /\ te' # te
           THEN [scn EXCEPT !.snaps = Append(@, [type |-> type, start |-> start,
                                                 tokens |-> tokens,
                                                 pre |-> Contents(te)])]
           ELSE scn

Undone == scn' = IF te.history = <<>> THEN scn ELSE [scn EXCEPT !.i = @ + 1]

\* Recorded mutators under a fixed positive limit, then undos.
NextHistory ==
    \/ \E pos \in LogRange, tokens \in OneToken :
          /\ Mutating
          /\ InsertTokens(pos, tokens)
          /\ Logged("TE_OP_INSERT", pos, tokens)
          /\ Within(LogLen, MaxHistory)
    \/ \E pos \in LogRange :
          /\ Mutating
          /\ DeleteTokens(pos, pos + 1)
          /\ Logged("TE_OP_DELETE", pos, Cells(te.tokens, pos, 1))
    \/ \E pos \in LogRange, token \in Token :
          /\ Mutating
          /\ pos < te.n_tokens
          /\ token # te.tokens[pos + 1]
          /\ SetToken(pos, token)
          /\ Logged("TE_OP_REPLACE", pos, <<te.tokens[pos + 1]>>)
    \/ Undo /\ Undone

SpecHistory == InitHistory /\ [][NextHistory]_vars

\* What an entry of the edit log says about the call that recorded it.
Described(log) ==
    [j \in 1..Len(log) |-> [type |-> log[j].type, start |-> log[j].source.start,
                            tokens |-> log[j].tokens]]

Calls(log) ==
    [j \in 1..Len(log) |-> [type |-> log[j].type, start |-> log[j].start,
                            tokens |-> log[j].tokens]]

Edited(r, info) ==
    /\ te' = r.ctx
    /\ ret' = r.err
    /\ token_info' = [i \in 1..Len(info) |->
                         IF i <= r.ctx.n_tokens THEN info[i] ELSE IndetInfo]
    /\ UNCHANGED <<kv, snapshot, wire, env, gen, mail, race, call>>

\* The mutators, undo, redo and import, with what each does to token_info.
NextInfo ==
    \/ \E pos \in LogRange, token \in Token :
          /\ Edited(te_set_token(te, pos, token), te_set_token_info(te, token_info, pos, token))
          /\ UNCHANGED scn
    \/ \E pos \in LogRange, tokens \in OneToken :
          /\ Edited(te_insert_tokens(te, pos, tokens),
                    te_insert_tokens_info(te, token_info, pos, tokens))
          /\ Within(LogLen, MaxHistory)
          /\ UNCHANGED scn
    \/ \E start \in LogRange, end \in LogRange :
          /\ Edited(te_delete_tokens(te, te_range_t(start, end)),
                    te_delete_tokens_info(te, token_info, te_range_t(start, end)))
          /\ Within(LogLen, MaxHistory)
          /\ UNCHANGED scn
    \/ \E start \in LogRange, end \in LogRange, tokens \in OneToken :
          /\ ReplaceInBounds(te, te_range_t(start, end), tokens)
          /\ Edited(te_replace_tokens(te, te_range_t(start, end), tokens),
                    te_replace_tokens_info(te, token_info, te_range_t(start, end), tokens))
          /\ Within(LogLen, MaxHistory)
          /\ UNCHANGED scn
    \/ Edited(te_clear(te), token_info) /\ Within(LogLen, MaxHistory) /\ UNCHANGED scn
    \/ Edited(te_undo(te), te_undo_info(te, token_info))
          /\ Within(LogLen, MaxHistory) /\ UNCHANGED scn
    \/ Edited(te_redo(te), te_redo_info(te, token_info))
          /\ Within(LogLen, MaxHistory) /\ UNCHANGED scn
    \/ \E count \in AcctRange, data \in OneToken :
          /\ Edited(te_import_binary(te, count, data),
                    te_import_binary_info(te, token_info, count, data))
          /\ UNCHANGED scn

\* A fresh editor whose client keeps one entry of history.
InitOneEntry ==
    /\ te = te_set_history_limit(te_init, 1)
    /\ kv = {}
    /\ snapshot = <<>>
    /\ ret = "TE_OK"
    /\ scn = ScnOff
    /\ wire = [bytes |-> <<>>, size |-> 0, src |-> <<>>]
    /\ mail = Mailbox
    /\ race = SharedPool
    /\ call = NoCall
    /\ token_info = te_init_token_info
    /\ env = rllm_init(MaxDepth, MaxContexts)
    /\ gen = Allocated(TRUE)

SpecInfo == InitOneEntry /\ [][NextInfo]_vars

\* C28: in every reachable state of an editor, for every i < n_tokens,
\* token_info[i].id = tokens[i] and token_info[i].pos = i, the entries
\* moved by an insert, delete or replace in the middle of the buffer and
\* the states after undo and redo included.
C28_InfoMatchesTokens ==
    \A i \in 1..te.n_tokens :
       token_info[i].id = te.tokens[i] /\ token_info[i].pos = i - 1

(* ------------------------------------------------------------------ *)
(* C29: the capacity of the buffer                                      *)
(* ------------------------------------------------------------------ *)

\* Buffers up to one token more than twice the initial capacity.
CapLen == 2 * TE_DEFAULT_CAPACITY + 1

\* One token, and a payload that takes a fresh editor past twice its
\* capacity in one call.
CapPayloads == {<<0>>, [i \in 1..CapLen |-> 0]}

\* The observer adds up the tokens inserted as long as the client has
\* called nothing but te_insert_tokens.
InsertsOnly(n) ==
    scn' = IF ret' = "TE_OK" /\ scn.cls # "mixed" THEN [scn EXCEPT !.i = @ + n] ELSE scn

Mixed == scn' = [scn EXCEPT !.cls = "mixed"]

\* Every call that sets n_tokens or the capacity.
NextCapacity ==
    \/ \E pos \in {0, te.n_tokens}, tokens \in CapPayloads :
          /\ InsertTokens(pos, tokens)
          /\ InsertsOnly(Len(tokens))
          /\ Within(CapLen, MaxHistory)
    \/ \E end \in {1, CapLen} :
          DeleteTokens(0, end) /\ Mixed /\ Within(CapLen, MaxHistory)
    \/ \E end \in AcctRange, tokens \in CapPayloads :
          ReplaceTokens(0, end, tokens) /\ Mixed /\ Within(CapLen, MaxHistory)
    \/ Clear /\ Mixed /\ Within(CapLen, MaxHistory)
    \/ Undo /\ Mixed /\ Within(CapLen, MaxHistory)
    \/ Redo /\ Mixed /\ Within(CapLen, MaxHistory)
    \/ CreateSnapshot(TRUE) /\ Mixed
    \/ RestoreSnapshot /\ Mixed
    \/ \E count \in {0, 1, CapLen}, data \in CapPayloads :
          ImportBinary(count, data) /\ Mixed

SpecCapacity == InitOneEntry /\ [][NextCapacity]_vars

\* The capacities te_init's floor reaches by doubling.
Doublings == {TE_DEFAULT_CAPACITY * 2 ^ k : k \in 0..CapLen}

\* C29: in every reachable state 0 <= n_tokens <= capacity and capacity is
\* the initial floor times a power of two; no call decreases the
\* capacity; and after inserts totalling N tokens into a fresh editor the
\* capacity is the smallest such value >= N, so below 2N when N exceeds
\* the floor.
C29_CapacityDoubles ==
    /\ [](/\ 0 <= te.n_tokens /\ te.n_tokens <= te.capacity
          /\ te.capacity \in Doublings
          /\ scn.cls # "mixed" =>
                /\ te.n_tokens = scn.i
                /\ te.capacity >= scn.i
                /\ \A c \in Doublings : c >= scn.i => te.capacity <= c
                /\ scn.i > TE_DEFAULT_CAPACITY => te.capacity < 2 * scn.i)
    /\ [][te'.capacity >= te.capacity]_vars

\* Inserts alone have taken a fresh editor to four times its first
\* capacity.
C29_Witness ==
    /\ scn.cls # "mixed"
    /\ scn.i = CapLen
    /\ te.capacity = 4 * TE_DEFAULT_CAPACITY

(* ------------------------------------------------------------------ *)
(* C30: logits_valid                                                    *)
(* ------------------------------------------------------------------ *)

\* C30: in every reachable state logits_valid is true only if a decode
\* with logits for the final position has completed over the current
\* buffer and neither a buffer mutation nor a cache invalidation has
\* occurred since; in particular logits_valid implies that kv_cache_dirty
\* is false, after te_invalidate_kv_range and te_restore_snapshot too.
C30_LogitsValidMeansClean ==
    te.logits_valid => ~te.kv_cache_dirty

(* ------------------------------------------------------------------ *)
(* te_sync_kv_cache: what a call leaves                                 *)
(* ------------------------------------------------------------------ *)

\* C31: whenever te_sync_kv_cache is called on a dirty editor and returns
\* TE_OK, the editor ends with kv_cache_dirty false and logits_valid true,
\* for every buffer length, the empty buffer included.
C31_SyncOkCleansAndValidates ==
    [][\A decode_ok \in BOOLEAN :
          (te.kv_cache_dirty /\ SyncKvCache(decode_ok) /\ ret' = "TE_OK")
              => (~te'.kv_cache_dirty /\ te'.logits_valid)]_vars

\* C32: te_sync_kv_cache on a clean editor returns TE_OK and changes
\* neither the editor nor the cache; when llama_decode fails it returns
\* TE_ERROR_KV_CACHE_FULL, the editor stays dirty and its tokens, token
\* metadata and history are what they were.
C32_SyncCleanOrFailedKeepsEditor ==
    [][\A decode_ok \in BOOLEAN : SyncKvCache(decode_ok) =>
          /\ ~te.kv_cache_dirty =>
                 (ret' = "TE_OK" /\ te' = te /\ kv' = kv)
          /\ (te.kv_cache_dirty /\ te.n_tokens > 0 /\ ~decode_ok) =>
                 /\ ret' = "TE_ERROR_KV_CACHE_FULL"
                 /\ te'.kv_cache_dirty
                 /\ te'.logits_valid = te.logits_valid
                 /\ te'.n_tokens = te.n_tokens
                 /\ te'.tokens = te.tokens
                 /\ te'.history = te.history
                 /\ te'.redo_stack = te.redo_stack
                 /\ token_info' = token_info]_vars

C32_Witness ==
    /\ ret = "TE_ERROR_KV_CACHE_FULL"
    /\ te.kv_cache_dirty
    /\ te.n_tokens > 0
    /\ te.history # <<>>

(* ------------------------------------------------------------------ *)
(* The active sequences                                                 *)
(* ------------------------------------------------------------------ *)

SeqIds == 0..MaxSeqId

\* Ids stay within SeqIds.
SeqWithin == \A i \in 1..Len(te'.active_sequences) : te'.active_sequences[i] \in SeqIds

NextSequence ==
    \/ CreateSequence /\ SeqWithin /\ UNCHANGED scn
    \/ ForkSequence(0) /\ SeqWithin /\ UNCHANGED scn
    \/ \E seq_id \in SeqIds : DeleteSequence(seq_id) /\ UNCHANGED scn
    \/ \E pos \in AcctRange, tokens \in OneToken :
          InsertTokens(pos, tokens) /\ Within(AcctLen, MaxHistory) /\ UNCHANGED scn
    \/ \E decode_ok \in BOOLEAN : SyncKvCache(decode_ok) /\ UNCHANGED scn

SpecSequence == Init /\ [][NextSequence]_vars

Active == {te.active_sequences[i] : i \in 1..Len(te.active_sequences)}

Largest(S) == CHOOSE m \in S : \A s \in S : s <= m

\* C33: sequence 0 is a member of the active-sequence set in every
\* reachable state (no operation, te_delete_sequence(0) included, removes
\* it), the active ids are pairwise distinct, and every te_create_sequence
\* or te_fork_sequence call returns max(active) + 1 and adds it to the set.
C33_DefaultSequenceStays ==
    /\ [](0 \in Active)
    /\ [](Cardinality(Active) = Len(te.active_sequences))
    /\ [][(CreateSequence \/ ForkSequence(0)) =>
             /\ Active # {}
             /\ ret' = ToString(Largest(Active) + 1)
             /\ te'.active_sequences = Append(te.active_sequences, Largest(Active) + 1)]_vars

(* ------------------------------------------------------------------ *)
(* Parents, child lists and depths of the context tree                  *)
(* ------------------------------------------------------------------ *)

\* How many entries of seq are c.
Occurrences(seq, c) == Cardinality({i \in 1..Len(seq) : seq[i] = c})

\* C34: in every reachable state of the context tree, every node whose
\* relation is not Root has exactly one non-null parent p, appears exactly
\* once in p's child list and has depth p.depth + 1 (a peer thereby has the
\* depth of its reference node); every node in some child list has that
\* list's owner as its parent; only Root nodes have a null parent and they
\* have depth 0.
C34_ParentsAndDepths ==
    \A c \in Live(env) :
       LET node == env.nodes[c]
       IN /\ node.relation # "RLLM_REL_ROOT" =>
                /\ node.parent # NULLCTX
                /\ node.parent \in Live(env)
                /\ Occurrences(env.nodes[node.parent].children, c) = 1
                /\ node.depth = env.nodes[node.parent].depth + 1
          /\ \A i \in 1..Len(node.children) :
                /\ node.children[i] \in Live(env)
                /\ env.nodes[node.children[i]].parent = c
          /\ node.parent = NULLCTX => node.relation = "RLLM_REL_ROOT"
          /\ node.relation = "RLLM_REL_ROOT" => (node.parent = NULLCTX /\ node.depth = 0)

(* ------------------------------------------------------------------ *)
(* What one rllm_complete call appends                                  *)
(* ------------------------------------------------------------------ *)

\* Prompts, te_set_readonly on the editor rllm_get_token_editor hands out,
\* and completions on one context.
NextGenerate ==
    \/ \E tokens \in {<<0>>} :
          /\ gen.at = "call"
          /\ InsertTokens(te.n_tokens, tokens)
          /\ Within(MaxLen, MaxHistory)
          /\ UNCHANGED scn
    \/ \E flag \in BOOLEAN : gen.at = "call" /\ SetReadonly(flag) /\ UNCHANGED scn
    \/ \E params \in CompletionParams, decode_ok \in BOOLEAN, sampling_ok \in BOOLEAN :
          /\ Complete(params, decode_ok, sampling_ok)
          /\ UNCHANGED scn
    \/ \E timed_out \in BOOLEAN, malloc_ok \in BOOLEAN, next_token \in Sampled,
          decode_ok \in BOOLEAN :
          /\ CompleteIteration(timed_out, malloc_ok, next_token, decode_ok)
          /\ Within(MaxLen, MaxHistory)
          /\ UNCHANGED scn

SpecGenerate == Init /\ [][NextGenerate]_vars

\* What one pass through the loop of rllm_complete is to leave.
IterationAppends ==
    /\ \E added \in {<<>>} \cup {<<t>> : t \in Token} :
          Contents(te') = Contents(te) \o added
    /\ te'.n_tokens - te.n_tokens = gen'.tokens_generated - gen.tokens_generated
    /\ gen'.told = SubSeq(Contents(te'), te.n_tokens + 1, te'.n_tokens)
    /\ gen'.returned = "RLLM_ERROR_TIMEOUT" => Contents(te') = Contents(te)

\* C35: a call rllm_complete with n_predict = N appends at most N tokens,
\* all at the end of the buffer and leaving the previous tokens unchanged;
\* it never appends an end-of-generation token; the buffer grows by exactly
\* tokens_generated; on_token is fired once per appended token in order;
\* when the call returns Timeout the tokens appended so far remain in the
\* buffer.
C35_CompletionAppends ==
    /\ [](gen.tokens_generated <= gen.n_predict)
    /\ [][\A timed_out \in BOOLEAN, malloc_ok \in BOOLEAN, next_token \in Sampled,
             decode_ok \in BOOLEAN :
             CompleteIteration(timed_out, malloc_ok, next_token, decode_ok)
                 => IterationAppends]_vars

(* ------------------------------------------------------------------ *)
(* The on_message callback of rllm_send_message                         *)
(* ------------------------------------------------------------------ *)

\* The slots of the ring.
Slots == 0..(queue_capacity - 1)

\* What a send that returned RLLM_OK is to have passed to on_message: the
\* address of the slot it stored the message into, which holds the type,
\* the sender, the receiver and the copy of the data of that message.
NotifiedOfEnqueued(before, sender, msg, bytes) ==
    /\ Len(mail'.notified) = 1
    /\ mail'.notified[1] = before.queue_tail
    /\ mail'.notified[1] \in Slots
    /\ LET got == mail'.message_queue[before.queue_tail]
       IN /\ got.type = msg.type
          /\ got.sender = sender
          /\ got.receiver = ReceiverId
          /\ got.data_size = msg.data_size
          /\ (msg.data # NULLPTR /\ msg.data_size > 0) =>
                /\ got.data \in Blocks
                /\ mail'.heap[got.data].bytes = Prefix(bytes, msg.data_size)

\* C36: whenever rllm_send_message returns RLLM_OK and the receiver has
\* on_message set, the callback is invoked exactly once with the message
\* that was just enqueued (same type, sender, receiver and data copy), for
\* every tail position, the send that stores into the last slot and wraps
\* queue_tail around to 0 included; a send that returns RLLM_ERROR_MEMORY
\* invokes no callback.
C36_CallbackGetsEnqueuedMessage ==
    [][\A send \in Sends, block \in Blocks \cup {NULLPTR} :
          SendMessage(send[1], send[2], DataBytes, block) =>
             /\ mail'.sent = "RLLM_OK" =>
                   NotifiedOfEnqueued(mail, send[1], send[2], DataBytes)
             /\ mail'.sent = "RLLM_ERROR_MEMORY" => mail'.notified = <<>>]_vars

(* ------------------------------------------------------------------ *)
(* Search (te_find_token, te_find_text)                                 *)
(* ------------------------------------------------------------------ *)

\* size_t arithmetic: 2^64 in the source, scaled down to 2^3.
SIZE_MODULUS == 8

\* max: the caller's *n_positions on entry.
te_find_token(ctx, token, max) ==
    LET hits == SelectSeq([k \in 1..ctx.n_tokens |-> k - 1],
                          LAMBDA i : ctx.tokens[i + 1] = token)
        found == IF Len(hits) < max THEN Len(hits) ELSE max
    IN [err |-> "TE_OK", positions |-> SubSeq(hits, 1, found), n_positions |-> found,
        past |-> FALSE]

\* ctx->tokens[k]; stray is what the memory at and beyond n_tokens holds.
ReadToken(ctx, k, stray) == IF k < ctx.n_tokens THEN ctx.tokens[k + 1] ELSE stray

\* The inner loop of te_find_text at offset i from j on: whether the
\* pattern matched, and whether a cell at or beyond n_tokens was read.
RECURSIVE CompareAt(_, _, _, _, _)
CompareAt(ctx, search_tokens, i, j, stray) ==
    IF j >= Len(search_tokens) THEN [match |-> TRUE, past |-> FALSE]
    ELSE IF ReadToken(ctx, i + j, stray) # search_tokens[j + 1]
    THEN [match |-> FALSE, past |-> i + j >= ctx.n_tokens]
    ELSE LET more == CompareAt(ctx, search_tokens, i, j + 1, stray)
         IN [match |-> more.match, past |-> (i + j >= ctx.n_tokens) \/ more.past]

\* The outer loop of te_find_text from i on, its test being
\* i <= last && found < max. With last the largest size_t the test on i
\* never fails; the scan ends there, every address having been read.
RECURSIVE SearchFrom(_, _, _, _, _, _, _, _)
SearchFrom(ctx, search_tokens, max, last, i, positions, past, stray) ==
    IF i > last \/ Len(positions) >= max
    THEN [positions |-> positions, past |-> past]
    ELSE LET at == CompareAt(ctx, search_tokens, i, 0, stray)
         IN SearchFrom(ctx, search_tokens, max, last, i + 1,
                       IF at.match THEN Append(positions, i) ELSE positions,
                       past \/ at.past, stray)

\* search_tokens, err: what te_tokenize makes of the text and returns.
\* n_positions is the caller's *n_positions after the call.
te_find_text(ctx, search_tokens, err, max, stray) ==
    IF err # "TE_OK" \/ Len(search_tokens) = 0
    THEN [err |-> err, positions |-> <<>>, n_positions |-> max, past |-> FALSE]
    ELSE LET last == (ctx.n_tokens - Len(search_tokens)) % SIZE_MODULUS
             scan == SearchFrom(ctx, search_tokens, max, last, 0, <<>>, FALSE, stray)
         IN [err |-> "TE_OK", positions |-> scan.positions,
             n_positions |-> Len(scan.positions), past |-> scan.past]

FindToken(token, max) ==
    /\ call' = [op |-> "te_find_token", returned |-> te_find_token(te, token, max)]
    /\ UNCHANGED <<te, kv, snapshot, ret, wire, env, gen, mail, race, token_info>>

FindText(search_tokens, err, max, stray) ==
    /\ call' = [op |-> "te_find_text",
                returned |-> te_find_text(te, search_tokens, err, max, stray)]
    /\ UNCHANGED <<te, kv, snapshot, ret, wire, env, gen, mail, race, token_info>>

\* Buffers of up to FindLen tokens, patterns of one token up to one more
\* than the longest buffer.
FindLen == AcctLen + 1
Patterns == UNION {[1..m -> Token] : m \in 1..(FindLen + 1)}

Limits == 0..FindLen

NextFind ==
    \/ \E pos \in 0..FindLen, tokens \in OneToken :
          InsertTokens(pos, tokens) /\ Within(FindLen, MaxHistory) /\ UNCHANGED scn
    \/ \E start \in 0..FindLen, end \in 0..FindLen :
          DeleteTokens(start, end) /\ UNCHANGED scn
    \/ \E token \in Token, max \in Limits : FindToken(token, max) /\ UNCHANGED scn
    \/ \E search_tokens \in Patterns, max \in Limits, stray \in Token :
          FindText(search_tokens, "TE_OK", max, stray) /\ UNCHANGED scn

SpecFind == InitOneEntry /\ [][NextFind]_vars

\* The offsets at which tokens holds pattern, ascending, cut to max.
RECURSIVE OffsetsFrom(_, _, _)
OffsetsFrom(tokens, pattern, i) ==
    IF i + Len(pattern) > Len(tokens) THEN <<>>
    ELSE (IF SubSeq(tokens, i + 1, i + Len(pattern)) = pattern THEN <<i>> ELSE <<>>)
         \o OffsetsFrom(tokens, pattern, i + 1)

Reported(r, pattern, max) ==
    LET all == OffsetsFrom(Contents(te), pattern, 0)
        cut == SubSeq(all, 1, IF Len(all) < max THEN Len(all) ELSE max)
    IN /\ r.err = "TE_OK"
       /\ r.positions = cut
       /\ r.n_positions = Len(cut)
       /\ ~r.past

\* C37: te_find_text (and te_find_token) report exactly the token offsets
\* i, in ascending order, at which the buffer matches the tokenized
\* pattern, truncated to the caller's *n_positions limit, and set
\* *n_positions to the number written; when the pattern has more tokens
\* than the buffer (the empty buffer included) the result is zero matches
\* and no position at or beyond n_tokens is ever read.
C37_FindReportsExactOffsets ==
    [][/\ \A token \in Token, max \in Limits :
             FindToken(token, max) => Reported(call'.returned, <<token>>, max)
       /\ \A search_tokens \in Patterns, max \in Limits, stray \in Token :
             FindText(search_tokens, "TE_OK", max, stray)
                => Reported(call'.returned, search_tokens, max)]_vars

(* ------------------------------------------------------------------ *)
(* rllm_self_eval                                                       *)
(* ------------------------------------------------------------------ *)

\* rllm_set_prompt with a prompt the tokenizer turns into tokens (the BOS
\* token first): te_clear and te_insert_tokens at 0, the editor being what
\* the call leaves whatever the two return.
rllm_set_prompt(editor, tokens) ==
    te_insert_tokens(te_clear(editor).ctx, 0, tokens).ctx

\* No rllm_self_eval is between its entry and its return.
Idle == gen.at = "call" /\ call.returned # "none"

\* rllm_self_eval from its entry to the head of the loop of rllm_complete:
\* te_create_snapshot (snapshot_ok: its calloc and mallocs of the token
\* arrays succeed; <<>> is the null pointer), rllm_set_prompt with the
\* tokens of the full prompt, and the entry of rllm_complete.
SelfEvalEnter(full_prompt, snapshot_ok, blob_ok, params, decode_ok, sampling_ok) ==
    LET prompted == rllm_set_prompt(te, full_prompt)
        r == rllm_complete_enter(gen, prompted, kv, params, decode_ok, sampling_ok)
    IN /\ Idle
       /\ snapshot' = IF snapshot_ok THEN <<te_create_snapshot(te, kv, blob_ok)>> ELSE <<>>
       /\ te' = r.te
       /\ kv' = r.kv
       /\ gen' = r.gen
       /\ call' = [op |-> "rllm_self_eval", returned |-> "none"]
       /\ UNCHANGED <<ret, wire, env, mail, race, token_info>>

\* rllm_complete has returned: te_restore_snapshot if the snapshot is not
\* null, te_free_snapshot, and the return of what rllm_complete_sync
\* returned (te_detokenize of the generated tokens succeeding).
SelfEvalReturn ==
    LET r == IF snapshot # <<>> THEN te_restore_snapshot(te, kv, snapshot[1])
             ELSE Outcome(te, kv, "TE_ERROR_INVALID_CONTEXT")
    IN /\ call.op = "rllm_self_eval"
       /\ call.returned = "none"
       /\ gen.at = "call"
       /\ te' = r.ctx
       /\ kv' = r.kv
       /\ snapshot' = <<>>
       /\ call' = [call EXCEPT !.returned = gen.returned]
       /\ UNCHANGED <<ret, wire, env, gen, mail, race, token_info>>

\* The full prompt: the BOS token.
FullPrompts == {<<1>>}

\* The inner completion: up to EvalPredict tokens under a timeout.
EvalParams == {[n_predict |-> EvalPredict, timeout_ms |-> 1]}

\* What the sampler returns during the evaluation.
EvalSampled == {0, TokenEog}

\* A call is entered with up to AcctLen edits in the history, under a
\* history limit that holds the edits made before the call and the ones
\* the call records: te_clear, te_insert_tokens of the prompt, and one
\* te_insert_tokens for each generated token.
EvalHistory == AcctLen + 2 + EvalPredict

InitSelfEval ==
    /\ te = te_set_history_limit(te_init, EvalHistory)
    /\ kv = {}
    /\ snapshot = <<>>
    /\ ret = "TE_OK"
    /\ scn = ScnOff
    /\ wire = [bytes |-> <<>>, size |-> 0, src |-> <<>>]
    /\ mail = Mailbox
    /\ race = SharedPool
    /\ call = NoCall
    /\ token_info = te_init_token_info
    /\ env = rllm_init(MaxDepth, MaxContexts)
    /\ gen = Allocated(TRUE)

\* The observer keeps the editor as it was when rllm_self_eval was entered
\* until the first edit after the return.
EvalEntered == scn' = [ScnOff EXCEPT !.phase = "entered", !.snaps = <<te>>]
EvalReturned == scn' = [scn EXCEPT !.phase = "returned"]

\* Edits and undo on one context, and rllm_self_eval calls on it.
NextSelfEval ==
    \/ \E tokens \in OneToken :
          /\ Idle
          /\ InsertTokens(te.n_tokens, tokens)
          /\ Within(AcctLen, AcctLen)
          /\ scn' = ScnOff
    \/ Idle /\ Undo /\ scn' = ScnOff
    \/ \E full_prompt \in FullPrompts, snapshot_ok \in BOOLEAN, params \in EvalParams,
          sampling_ok \in BOOLEAN :
          /\ Len(te.history) <= AcctLen
          /\ SelfEvalEnter(full_prompt, snapshot_ok, TRUE, params, TRUE, sampling_ok)
          /\ EvalEntered
    \/ \E timed_out \in BOOLEAN, malloc_ok \in BOOLEAN, next_token \in EvalSampled,
          decode_ok \in BOOLEAN :
          /\ CompleteIteration(timed_out, malloc_ok, next_token, decode_ok)
          /\ UNCHANGED scn
    \/ SelfEvalReturn /\ EvalReturned

SpecSelfEval == InitSelfEval /\ [][NextSelfEval]_vars

\* C38: after rllm_self_eval returns, whatever the outcome of the inner
\* completion (Ok, Timeout, Model), the editor's token sequence equals its
\* token sequence before the call: the evaluation prompt and all generated
\* tokens have been removed by restoring the snapshot.
C38_SelfEvalRestoresTokens ==
    scn.phase = "returned" => Contents(te) = Contents(scn.snaps[1])

\* C39: rllm_self_eval is invisible to undo: after it returns, the
\* editor's history and redo stack are the same as before the call, so that
\* a following te_undo reverts the last edit made before the
\* self-evaluation and yields the token sequence that preceded that edit.
C39_SelfEvalInvisibleToUndo ==
    scn.phase = "returned" =>
       /\ te.history = scn.snaps[1].history
       /\ te.redo_stack = scn.snaps[1].redo_stack
       /\ Contents(te_undo(te).ctx) = Contents(te_undo(scn.snaps[1]).ctx)

(* ------------------------------------------------------------------ *)
(* te_import_binary and te_undo                                         *)
(* ------------------------------------------------------------------ *)

\* C40: te_import_binary is undoable as one step: for any editor with a
\* non-empty buffer, te_import_binary of a valid stream followed by one
\* te_undo restores exactly the pre-import token sequence (no imported
\* token remains in the buffer).
C40_ImportUndoneInOneStep ==
    [][\A count \in AcctRange, data \in OneToken :
          (te.n_tokens > 0 /\ ImportBinary(count, data) /\ ret' = "TE_OK")
              => Contents(te_undo(te').ctx) = Contents(te)]_vars

\* Edits, undo and redo, cache operations and te_sync_kv_cache on one editor.
NextSync ==
    \/ \E pos \in AcctRange, tokens \in OneToken :
          InsertTokens(pos, tokens) /\ Within(AcctLen, MaxHistory) /\ UNCHANGED scn
    \/ \E start \in AcctRange, end \in AcctRange :
          DeleteTokens(start, end) /\ UNCHANGED scn
    \/ \E decode_ok \in BOOLEAN : SyncKvCache(decode_ok) /\ UNCHANGED scn
    \/ \E start \in AcctRange, end \in AcctRange :
          InvalidateKvRange(start, end) /\ UNCHANGED scn
    \/ ClearKvCache /\ UNCHANGED scn
    \/ Undo /\ Within(AcctLen, MaxHistory) /\ UNCHANGED scn
    \/ Redo /\ Within(AcctLen, MaxHistory) /\ UNCHANGED scn
    \/ \E delta \in {-1, 1} : ShiftKvCache(delta) /\ CacheWithin /\ UNCHANGED scn

SpecSync == Init /\ [][NextSync]_vars

====
